---- MODULE Spec2Model ----
(***************************************************************************)
(* memflow: architecture dispatch, batched virtual-to-physical translation *)
(* and the write-through physical page cache (CachedMemoryAccess).         *)
(*                                                                         *)
(* 64-bit quantities of the translation code (addresses, page-table        *)
(* entries) are modelled as the set of their set bit positions, so that    *)
(* bit 63 (NX) and bit 52 are representable.  The cache is modelled over a *)
(* small byte-addressed backend whose addresses are plain naturals.        *)
(***************************************************************************)
EXTENDS Integers, Sequences, FiniteSets, TLC

VARIABLES
    \* ---- architecture tag (de)serialisation ----
    tagIn,      \* the byte handed to Architecture::try_from
    tagRes,     \* the Result of the last try_from / as_u8 round trip
    \* ---- translation (Architecture::virt_to_phys / virt_to_phys_iter) ----
    arch,       \* the Architecture the call is dispatched on
    dtb,        \* directory table base handed to the call
    layout,     \* which page-table image the backend holds
    wOp,        \* "none" | "iter" | "single": the last translation call
    wBatch,     \* addrs of the last call, in input order
    wPre,       \* contents of `out` before the last virt_to_phys_iter
    wOut,       \* contents of `out` after the last virt_to_phys_iter
    wFail,      \* walk step at which the backend failed in the last call (0: never)
    wReads,     \* batched backend reads issued by the last call
    wLog,       \* the PTE addresses each of these reads asked for, read by read
    wRet,       \* what the last virt_to_phys returned
    \* ---- CachedMemoryAccess ----
    mem,        \* backend bytes: address -> byte
    slots,      \* page cache: sequence of slots [address, buf]; NoAddr is Invalid
    valid,      \* validator oracle: slot -> BOOLEAN (as of the last update_validity)
    ops,        \* number of batched calls made so far
    last,       \* record of the last batched call and of what it returned
    fresh,      \* history: address -> byte of the last successful write to it, while
                \* the validator has reported every slot valid since; else NoByte
    resident,   \* history: pages a read installed, accepted by the validator ever
                \* since, with no colliding page read since
    hot,        \* history: address -> byte written to it while its page was resident,
                \* with no later write to it and the page resident since; else NoByte
    \* ---- CachedMemoryAccessBuilder ----
    builder,    \* the builder's fields
    built,      \* what build returned (op "none" while the builder is still in hand)
    calls,      \* history: which setters were called, and with what
    \* ---- PhysicalMemory::phys_read_char_string ----
    strIn,      \* the call: address, what the backend holds there, which read fails
    strBuf,     \* buf.len()
    strLog,     \* the backend reads made so far: [addr, len]
    strRes      \* what the call returned (op "running" while it is in its loop)

archVars  == <<tagIn, tagRes>>
walkVars  == <<arch, dtb, layout, wOp, wBatch, wPre, wOut, wFail, wReads, wLog, wRet>>
cacheVars == <<mem, slots, valid, ops, last, fresh, resident, hot>>
buildVars == <<builder, built, calls>>
strVars   == <<strIn, strBuf, strLog, strRes>>
vars      == <<tagIn, tagRes, arch, dtb, layout, wOp, wBatch, wPre, wOut, wFail,
               wReads, wLog, wRet, mem, slots, valid, ops, last, fresh, resident, hot,
               builder, built, calls, strIn, strBuf, strLog, strRes>>

(***************************************************************************)
(* Bounds of the model                                                     *)
(***************************************************************************)
MaxBatch == 2       \* longest batch of virtual addresses handed to a translation
MaxOps   == 3       \* batched calls made through one CachedMemoryAccess
MaxReqs  == 1       \* longest batch of requests handed to the cache, reads and writes mixed
MaxReadBatch == 2   \* longest batch of read requests when the handle is only read
MaxWriteBatch == 2  \* longest batch of write entries when whole batches are written
MaxWriteOps == 2    \* batched calls made when whole batches are written
MaxFail  == 9       \* latest read of a phys_read_char_string call that may fail

\* phys_read_char_string: the first buffer length and the longest string
InitialBufLen == 32
StringLimit   == 4096
MaxLen   == 2       \* longest cache request, in bytes
MaxSlots == 2       \* largest page cache, in slots
PageSize == 2       \* bytes per page of the cached backend
NPages   == 2       \* pages of the cached backend

(***************************************************************************)
(* 64-bit words as sets of bit positions                                   *)
(***************************************************************************)
WordBits == 64

\* the word holding the (small) natural n
FromNat(n) == {i \in 0..30 : (n \div 2^i) % 2 = 1}

\* the natural held by a word whose bits are all below 31
RECURSIVE ToNat(_)
ToNat(w) == IF w = {} THEN 0
            ELSE LET b == CHOOSE x \in w : TRUE IN 2^b + ToNat(w \ {b})

\* the word written as hex digits, most significant first
FromHex(ds) ==
    UNION {{4 * (Len(ds) - i) + b : b \in FromNat(ds[i])} : i \in 1..Len(ds)}

\* bits [lo, lo + width) of w, as a natural
Field(w, lo, width) == ToNat({b - lo : b \in {x \in w : x >= lo /\ x < lo + width}})

RECURSIVE AddBits(_, _, _, _)
AddBits(a, b, i, c) ==
    IF i = WordBits THEN {}
    ELSE LET s == (IF i \in a THEN 1 ELSE 0) + (IF i \in b THEN 1 ELSE 0) + c
         IN  (IF s % 2 = 1 THEN {i} ELSE {}) \cup AddBits(a, b, i + 1, s \div 2)

\* wrapping u64 addition (without common bits there is no carry)
Add(a, b) == IF a \cap b = {} THEN a \cup b ELSE AddBits(a, b, 0, 0)

RECURSIVE SumFrom(_, _)
SumFrom(seq, i) == IF i > Len(seq) THEN 0 ELSE seq[i] + SumFrom(seq, i + 1)

(***************************************************************************)
(* Architecture and its u8 tag                                             *)
(***************************************************************************)
Architectures == {"Null", "X64", "X86Pae", "X86"}

InvalidArchitecture == [ok |-> FALSE, err |-> "Invalid Architecture value"]

\* impl TryFrom<u8> for Architecture
try_from(value) ==
    CASE value = 0 -> [ok |-> TRUE, val |-> "Null"]
      [] value = 1 -> [ok |-> TRUE, val |-> "X64"]
      [] value = 2 -> [ok |-> TRUE, val |-> "X86Pae"]
      [] value = 3 -> [ok |-> TRUE, val |-> "X86"]
      [] OTHER     -> InvalidArchitecture

\* a tag table with two variants swapped
as_u8_swapped(self) ==
    CASE self = "Null"   -> 0
      [] self = "X64"    -> 1
      [] self = "X86Pae" -> 3
      [] self = "X86"    -> 2

\* Architecture::as_u8
as_u8(self) ==
    CASE self = "Null"   -> 0
      [] self = "X64"    -> 1
      [] self = "X86Pae" -> 2
      [] self = "X86"    -> 3

(***************************************************************************)
(* MMU specs                                                               *)
(***************************************************************************)
\* an x86_64 spec whose PTEs are taken to be 4 bytes wide
x64_get_mmu_spec_pte4 ==
    [virtual_address_splits |-> <<9, 9, 9, 9, 12>>,
     valid_final_page_steps |-> {2, 3, 4},
     address_space_bits     |-> 52,
     pte_size               |-> 4,
     present_bit            |-> 0,
     writeable_bit          |-> 1,
     nx_bit                 |-> 63,
     large_page_bit         |-> 7]

\* an x86_64 spec that knows 4 KiB leaves only
x64_get_mmu_spec_4k_only ==
    [virtual_address_splits |-> <<9, 9, 9, 9, 12>>,
     valid_final_page_steps |-> {4},
     address_space_bits     |-> 52,
     pte_size               |-> 8,
     present_bit            |-> 0,
     writeable_bit          |-> 1,
     nx_bit                 |-> 63,
     large_page_bit         |-> 7]

\* an x86_64 spec that takes the writeable bit for the present bit
x64_get_mmu_spec_present1 ==
    [virtual_address_splits |-> <<9, 9, 9, 9, 12>>,
     valid_final_page_steps |-> {2, 3, 4},
     address_space_bits     |-> 52,
     pte_size               |-> 8,
     present_bit            |-> 1,
     writeable_bit          |-> 1,
     nx_bit                 |-> 63,
     large_page_bit         |-> 7]

\* an x86_64 spec that lets a walk end at the PML4 level too
x64_get_mmu_spec_pml4_leaf ==
    [virtual_address_splits |-> <<9, 9, 9, 9, 12>>,
     valid_final_page_steps |-> {1, 2, 3, 4},
     address_space_bits     |-> 52,
     pte_size               |-> 8,
     present_bit            |-> 0,
     writeable_bit          |-> 1,
     nx_bit                 |-> 63,
     large_page_bit         |-> 7]

\* an x86_64 spec with a physical address space of 56 bits
x64_get_mmu_spec_wide ==
    [virtual_address_splits |-> <<9, 9, 9, 9, 12>>,
     valid_final_page_steps |-> {2, 3, 4},
     address_space_bits     |-> 56,
     pte_size               |-> 8,
     present_bit            |-> 0,
     writeable_bit          |-> 1,
     nx_bit                 |-> 63,
     large_page_bit         |-> 7]

\* x64::get_mmu_spec
x64_get_mmu_spec ==
    [virtual_address_splits |-> <<9, 9, 9, 9, 12>>,
     valid_final_page_steps |-> {2, 3, 4},
     address_space_bits     |-> 52,
     pte_size               |-> 8,
     present_bit            |-> 0,
     writeable_bit          |-> 1,
     nx_bit                 |-> 63,
     large_page_bit         |-> 7]

\* x86_pae::get_mmu_spec (PAE: splits [2, 9, 9, 12], 8-byte PTEs)
x86_pae_get_mmu_spec ==
    [virtual_address_splits |-> <<2, 9, 9, 12>>,
     valid_final_page_steps |-> {2, 3},
     address_space_bits     |-> 36,
     pte_size               |-> 8,
     present_bit            |-> 0,
     writeable_bit          |-> 1,
     nx_bit                 |-> 63,
     large_page_bit         |-> 7]

\* x86::get_mmu_spec (legacy x86: splits [10, 10, 12], 4-byte PTEs)
x86_get_mmu_spec ==
    [virtual_address_splits |-> <<10, 10, 12>>,
     valid_final_page_steps |-> {1, 2},
     address_space_bits     |-> 32,
     pte_size               |-> 4,
     present_bit            |-> 0,
     writeable_bit          |-> 1,
     nx_bit                 |-> 63,
     large_page_bit         |-> 7]

\* number of index fields of a spec: the depth of its walk
Depth(spec) == Len(spec.virtual_address_splits) - 1

\* log2 of the size of the page a leaf at walk step s maps
page_size_bits(spec, s) == SumFrom(spec.virtual_address_splits, s + 1)

\* ArchMMUSpec::page_size_level: level 1 is the smallest page
page_size_level(spec, pt_level) == {page_size_bits(spec, Depth(spec) + 1 - pt_level)}

\* x64::page_size
x64_page_size == page_size_level(x64_get_mmu_spec, 1)

\* index_s(v): the bit slice of v selected by virtual_address_splits[s]
index_s(spec, s, v) ==
    Field(v, page_size_bits(spec, s), spec.virtual_address_splits[s])

(***************************************************************************)
(* The backend holding page tables: 4-byte little-endian cells             *)
(***************************************************************************)
Cell(image, a) == IF a \in DOMAIN image THEN image[a] ELSE {}

\* one PTE of pte_size bytes read at address a
ReadPTE(image, a, pte_size) ==
    IF pte_size = 4 THEN Cell(image, a)
    ELSE Cell(image, a) \cup {b + 32 : b \in Cell(image, Add(a, FromNat(4)))}

(***************************************************************************)
(* The translation engine (one batched read per walk step)                 *)
(***************************************************************************)
PageNotPresent   == [ok |-> FALSE, err |-> "PageNotPresent"]
InvalidPageTable == [ok |-> FALSE, err |-> "InvalidPageTable"]
BackendError     == [ok |-> FALSE, err |-> "Io"]
Pending          == [ok |-> FALSE, err |-> "pending"]

\* the physical address a PTE refers to: the PTE without its low flag bits and NX
pte_addr_field(spec, pte) ==
    {b \in pte : b >= page_size_bits(spec, Depth(spec)) /\ b # spec.nx_bit}

\* decode_flags(PTE) at walk step s
decode_flags(spec, s, pte) ==
    (IF spec.writeable_bit \in pte THEN {"WRITEABLE"} ELSE {"READ_ONLY"})
    \cup (IF spec.nx_bit \in pte THEN {"NOEXEC"} ELSE {})
    \cup (IF s = Depth(spec) THEN {"PAGE_TABLE"} ELSE {})

\* address of the PTE a working-set entry reads at step s
pte_address(spec, s, e) ==
    Add(e.frame, FromNat(index_s(spec, s, e.v) * spec.pte_size))

\* step 4 of a phase: what the decoded PTE means for one entry
Decode(spec, s, e, pte) ==
    IF spec.present_bit \notin pte THEN PageNotPresent
    ELSE IF \E b \in pte_addr_field(spec, pte) : b >= spec.address_space_bits
         THEN InvalidPageTable
    ELSE IF s \in spec.valid_final_page_steps
            /\ (s = Depth(spec) \/ spec.large_page_bit \in pte)
         THEN [ok        |-> TRUE,
               address   |-> {b \in pte_addr_field(spec, pte) : b >= page_size_bits(spec, s)}
                             \cup {b \in e.v : b < page_size_bits(spec, s)},
               page_type |-> decode_flags(spec, s, pte),
               page_size |-> {page_size_bits(spec, s)}]
    ELSE Pending

\* a batched read that asks for the PTE of every working-set entry, shared or not
pte_reads_all(addrs) == addrs

\* step 2 of a phase: the PTE addresses of the working set, each once, in the order of
\* the entries that first need them
pte_reads(addrs) ==
    LET firsts == {k \in 1..Len(addrs) : \A j \in 1..(k - 1) : addrs[j] # addrs[k]}
    IN  [n \in 1..Cardinality(firsts) |->
           addrs[CHOOSE k \in firsts : Cardinality({j \in firsts : j < k}) = n - 1]]

\* phases s..n over working set W; res: out_slot -> result; reads: the batched backend
\* reads so far, each the list of PTE addresses it asks for
RECURSIVE WalkFrom(_, _, _, _, _, _, _)
WalkFrom(spec, image, failStep, s, W, res, reads) ==
    IF W = <<>> \/ s > Depth(spec)
    THEN [out |-> res, reads |-> Len(reads), log |-> reads]
    ELSE
      LET at      == [k \in 1..Len(W) |-> pte_address(spec, s, W[k])]
          ptes    == [a \in {at[k] : k \in 1..Len(W)} |-> ReadPTE(image, a, spec.pte_size)]
          dec(k)  == Decode(spec, s, W[k], ptes[at[k]])
          keep(k) == dec(k) = Pending /\ s < Depth(spec)
          adv     == [k \in 1..Len(W) |->
                        [v     |-> W[k].v,
                         frame |-> pte_addr_field(spec, ptes[at[k]]),
                         slot  |-> W[k].slot]]
          RECURSIVE Pick(_)
          Pick(k) == IF k > Len(W) THEN <<>>
                     ELSE (IF keep(k) THEN <<adv[k]>> ELSE <<>>) \o Pick(k + 1)
          res2    == [i \in DOMAIN res |->
                        IF \E k \in 1..Len(W) : W[k].slot = i /\ ~keep(k)
                        THEN dec(CHOOSE k \in 1..Len(W) : W[k].slot = i)
                        ELSE res[i]]
          failed  == [i \in DOMAIN res |->
                        IF \E k \in 1..Len(W) : W[k].slot = i THEN BackendError ELSE res[i]]
      \* a failed read ends the walk: nothing is left in the working set
      IN  WalkFrom(spec, image, failStep, s + 1,
                   IF failStep = s THEN <<>> ELSE Pick(1),
                   IF failStep = s THEN failed ELSE res2,
                   Append(reads, pte_reads(at)))

\* the engine on a whole batch: phase 0 forms the working set at the root frame
Walk(spec, image, failStep, root, addrs) ==
    WalkFrom(spec, image, failStep, 1,
             [i \in 1..Len(addrs) |-> [v |-> addrs[i], frame |-> root, slot |-> i]],
             [i \in 1..Len(addrs) |-> Pending], <<>>)

\* PhysicalAddress::from(Address): no page information
PhysicalAddressFrom(addr) ==
    [ok |-> TRUE, address |-> addr, page_type |-> {"UNKNOWN"}, page_size |-> {}]

(***************************************************************************)
(* Architecture::virt_to_phys_iter and virt_to_phys                        *)
(***************************************************************************)
\* x64::virt_to_phys_iter: the engine driven by x64::get_mmu_spec
x64_virt_to_phys_iter(image, failStep, root, addrs, out) ==
    [Walk(x64_get_mmu_spec, image, failStep, root, addrs) EXCEPT !.out = out \o @]

\* x86_pae::virt_to_phys_iter
x86_pae_virt_to_phys_iter(image, failStep, root, addrs, out) ==
    [Walk(x86_pae_get_mmu_spec, image, failStep, root, addrs) EXCEPT !.out = out \o @]

\* x86::virt_to_phys_iter
x86_virt_to_phys_iter(image, failStep, root, addrs, out) ==
    [Walk(x86_get_mmu_spec, image, failStep, root, addrs) EXCEPT !.out = out \o @]

\* a dispatch whose Null arm falls through to x64, as bits() and page_size() do
virt_to_phys_iter_null_as_x64(self, image, failStep, root, addrs, out) ==
    CASE self = "Null"   -> x64_virt_to_phys_iter(image, failStep, root, addrs, out)
      [] self = "X64"    -> x64_virt_to_phys_iter(image, failStep, root, addrs, out)
      [] self = "X86Pae" -> x86_pae_virt_to_phys_iter(image, failStep, root, addrs, out)
      [] self = "X86"    -> x86_virt_to_phys_iter(image, failStep, root, addrs, out)

\* a dispatch that walks every address of the batch by a call of its own
virt_to_phys_iter_per_address(self, image, failStep, root, addrs, out) ==
    LET one(a) ==
            CASE self = "Null"   -> [out |-> <<PhysicalAddressFrom(a)>>, reads |-> 0,
                                     log |-> <<>>]
              [] self = "X64"    -> x64_virt_to_phys_iter(image, failStep, root, <<a>>, <<>>)
              [] self = "X86Pae" -> x86_pae_virt_to_phys_iter(image, failStep, root, <<a>>, <<>>)
              [] self = "X86"    -> x86_virt_to_phys_iter(image, failStep, root, <<a>>, <<>>)
        RECURSIVE go(_)
        go(k) == IF k > Len(addrs) THEN [out |-> <<>>, reads |-> 0, log |-> <<>>]
                 ELSE LET r    == one(addrs[k])
                          rest == go(k + 1)
                      IN  [out |-> r.out \o rest.out, reads |-> r.reads + rest.reads,
                           log |-> r.log \o rest.log]
    IN  [out |-> out \o go(1).out, reads |-> go(1).reads, log |-> go(1).log]

\* Architecture::virt_to_phys_iter: the new contents of `out`, and the backend reads made
virt_to_phys_iter(self, image, failStep, root, addrs, out) ==
    CASE self = "Null"   ->
            [out   |-> out \o [i \in 1..Len(addrs) |-> PhysicalAddressFrom(addrs[i])],
             reads |-> 0,
             log   |-> <<>>]
      [] self = "X64"    -> x64_virt_to_phys_iter(image, failStep, root, addrs, out)
      [] self = "X86Pae" -> x86_pae_virt_to_phys_iter(image, failStep, root, addrs, out)
      [] self = "X86"    -> x86_virt_to_phys_iter(image, failStep, root, addrs, out)

Panic == [ok |-> FALSE, err |-> "panic: unwrap on None"]

\* a virt_to_phys that hands its two Address arguments over in the wrong order
virt_to_phys_swapped(self, image, failStep, root, addr) ==
    LET vec == virt_to_phys_iter(self, image, failStep, addr, <<root>>, <<>>).out
    IN  IF vec = <<>> THEN Panic ELSE vec[Len(vec)]

\* Architecture::virt_to_phys: a fresh Vec, one address, pop().unwrap()
virt_to_phys(self, image, failStep, root, addr) ==
    LET vec == virt_to_phys_iter(self, image, failStep, root, <<addr>>, <<>>).out
    IN  IF vec = <<>> THEN Panic ELSE vec[Len(vec)]

\* depth of the walk an architecture makes (Null makes none)
ArchDepth(self) ==
    CASE self = "Null"   -> 0
      [] self = "X64"    -> Depth(x64_get_mmu_spec)
      [] self = "X86Pae" -> Depth(x86_pae_get_mmu_spec)
      [] self = "X86"    -> Depth(x86_get_mmu_spec)

(***************************************************************************)
(* Page-table images held by the backend, and the inputs of the model      *)
(***************************************************************************)
ImageOf(pairs) == [a \in {p[1] : p \in pairs} |-> (CHOOSE p \in pairs : p[1] = a)[2]]

\* x86_64: PML4 at 0x1000, PDPT at 0x2000, PD at 0x3000, PT at 0x4000;
\* PD[2] -> PT, PD[3] a 2 MiB page at 0x4000_0000, PT[1] -> frame 0x7777_0000.
\* Legacy x86: PD at 0x9000, PD[1] -> PT at 0xA000, PT[1] -> frame 0x5555_0000.
BaseCells ==
    {<<FromHex(<<1,0,0,0>>), FromHex(<<2,0,0,3>>)>>,
     <<FromHex(<<2,0,0,0>>), FromHex(<<3,0,0,3>>)>>,
     <<FromHex(<<3,0,1,0>>), FromHex(<<4,0,0,3>>)>>,
     <<FromHex(<<3,0,1,8>>), FromHex(<<4,0,0,0,0,0,8,3>>)>>,
     <<FromHex(<<4,0,0,8>>), FromHex(<<7,7,7,7,0,0,0,3>>)>>,
     <<FromHex(<<9,0,0,4>>), FromHex(<<10,0,0,3>>)>>,
     <<FromHex(<<10,0,0,4>>), FromHex(<<5,5,5,5,0,0,0,3>>)>>}

Override(pairs, a, w) == {p \in pairs : p[1] # a} \cup {<<a, w>>}

ImageS2   == ImageOf(BaseCells)
\* PD[2] is a 2 MiB page at 0x8000_0000
ImageS3   == ImageOf(Override(BaseCells, FromHex(<<3,0,1,0>>), FromHex(<<8,0,0,0,0,0,8,3>>)))
\* PT[1] has its present bit clear
ImageS4   == ImageOf(Override(BaseCells, FromHex(<<4,0,0,8>>), FromHex(<<7,7,7,7,0,0,0,2>>)))
\* PT[1] has NX (bit 63) set
ImageNX   == ImageOf(Override(BaseCells, FromHex(<<4,0,0,12>>), FromHex(<<8,0,0,0,0,0,0,0>>)))
\* PT[1] refers to an address with bit 52 set
ImageBad  == ImageOf(Override(BaseCells, FromHex(<<4,0,0,12>>), FromHex(<<0,0,1,0,0,0,0,0>>)))
\* PML4[0] has the large-page bit set
ImageHuge == ImageOf(Override(BaseCells, FromHex(<<1,0,0,0>>), FromHex(<<2,0,8,3>>)))

\* PDPT[0] is a 1 GiB page at 0x4000_0000
ImageGiga == ImageOf(Override(BaseCells, FromHex(<<2,0,0,0>>), FromHex(<<4,0,0,0,0,0,8,3>>)))
\* PD[2] refers to a page table at an address with bit 52 set
ImageBadDir == ImageOf(Override(BaseCells, FromHex(<<3,0,1,4>>), FromHex(<<0,0,1,0,0,0,0,0>>)))

Layouts == {"S2", "S3", "S4", "NX", "Bad", "Huge", "Giga", "BadDir"}

Image(l) ==
    CASE l = "S2"   -> ImageS2
      [] l = "S3"   -> ImageS3
      [] l = "S4"   -> ImageS4
      [] l = "NX"   -> ImageNX
      [] l = "Bad"  -> ImageBad
      [] l = "Huge" -> ImageHuge
      [] l = "Giga" -> ImageGiga
      [] l = "BadDir" -> ImageBadDir

V1 == FromHex(<<4,0,1,2,3,4>>)          \* 0x0040_1234
V2 == FromHex(<<4,0,1,10,11,12>>)       \* 0x0040_1ABC: same leaf PTE as V1
V3 == FromHex(<<4,0,2,0,1,0>>)          \* 0x0040_2010: PT[2], never mapped
V4 == {63} \cup FromHex(<<6,0,1,2,3,4>>)  \* 0x8000_0000_0060_1234: PD[3], not canonical
V5 == FromHex(<<13,14,10,13,11,14,14,15>>)  \* 0xDEAD_BEEF

VAddrs == {V1, V2, V3, V4, V5}
Roots  == {FromHex(<<1,0,0,0>>), FromHex(<<2,0,0,0>>), FromHex(<<9,0,0,0>>)}

RECURSIVE SeqsUpTo(_, _)
SeqsUpTo(S, n) ==
    IF n = 0 THEN {<<>>}
    ELSE LET shorter == SeqsUpTo(S, n - 1)
         IN  shorter \cup {Append(q, x) : q \in {r \in shorter : Len(r) = n - 1}, x \in S}

Batches == SeqsUpTo(VAddrs, MaxBatch)

\* what the caller's vector may hold before the call
PreVecs == {<<>>, <<PageNotPresent>>}

(***************************************************************************)
(* Actions: tags                                                           *)
(***************************************************************************)
Bytes == 0..255

ArchInit ==
    /\ tagIn = 0
    /\ tagRes = [op |-> "none"]

\* decode a byte, and encode what was decoded
TryFrom ==
    /\ \E b \in Bytes :
         /\ tagIn' = b
         /\ tagRes' = LET r == try_from(b)
                      IN  IF r.ok
                          THEN [op |-> "try_from", res |-> r, tag |-> as_u8(r.val)]
                          ELSE [op |-> "try_from", res |-> r, tag |-> b]
    /\ UNCHANGED <<walkVars, cacheVars, buildVars, strVars>>

\* encode a variant, and decode the byte
RoundTrip ==
    /\ \E a \in Architectures :
         /\ tagIn' = as_u8(a)
         /\ tagRes' = [op |-> "round_trip", from |-> a, back |-> try_from(as_u8(a))]
    /\ UNCHANGED <<walkVars, cacheVars, buildVars, strVars>>

(***************************************************************************)
(* Actions: translation                                                    *)
(***************************************************************************)
WalkIdle ==
    /\ wOp = "none"
    /\ wBatch = <<>>
    /\ wPre = <<>>
    /\ wOut = <<>>
    /\ wFail = 0
    /\ wReads = 0
    /\ wLog = <<>>
    /\ wRet = Pending

WalkInit ==
    /\ arch \in Architectures
    /\ dtb \in Roots
    /\ layout \in Layouts
    /\ WalkIdle

VirtToPhysIter ==
    /\ wOp = "none"
    /\ \E b \in Batches, pre \in PreVecs, f \in 0..ArchDepth(arch) :
         \E r \in {virt_to_phys_iter(arch, Image(layout), f, dtb, b, pre)} :
             /\ wOp' = "iter"
             /\ wBatch' = b
             /\ wPre' = pre
             /\ wOut' = r.out
             /\ wFail' = f
             /\ wReads' = r.reads
             /\ wLog' = r.log
             /\ wRet' = Pending
    /\ UNCHANGED <<arch, dtb, layout, archVars, cacheVars, buildVars, strVars>>

VirtToPhys ==
    /\ wOp = "none"
    /\ \E v \in VAddrs, f \in 0..ArchDepth(arch) :
         /\ wOp' = "single"
         /\ wBatch' = <<v>>
         /\ wPre' = <<>>
         /\ wOut' = <<>>
         /\ wFail' = f
         /\ \E r \in {virt_to_phys_iter(arch, Image(layout), f, dtb, <<v>>, <<>>)} :
                wReads' = r.reads /\ wLog' = r.log
         /\ wRet' = virt_to_phys(arch, Image(layout), f, dtb, v)
    /\ UNCHANGED <<arch, dtb, layout, archVars, cacheVars, buildVars, strVars>>

(***************************************************************************)
(* The page cache (PageCache) over a byte-addressed backend                *)
(***************************************************************************)
MemSize == NPages * PageSize
Addrs   == 0..(MemSize - 1)
NoAddr  == -1
NoByte  == 0 - 1

\* what a call of the backend returns: Ok, or one of its errors
BackendErrors  == {"Io", "Bounds"}
BackendResults == {"Ok"} \cup BackendErrors

\* CachedMemoryAccessBuilder::default: page_type_mask
DefaultMask == {"PAGE_TABLE", "READ_ONLY"}

\* the page types requests carry in the model
PageTypes == {{"READ_ONLY"}, {"WRITEABLE"}}

Min(a, b) == IF a < b THEN a ELSE b

PageBase(a)    == (a \div PageSize) * PageSize
SlotOf(n, a)   == (a \div PageSize) % n

\* PageCache::is_cached_page_type
is_cached_page_type(pt) == pt \cap DefaultMask # {}

\* a request handed on as one chunk, page boundaries or not
page_chunks_whole(addr, len, off) ==
    IF len = 0 THEN <<>> ELSE <<[addr |-> addr, len |-> len, off |-> off]>>

\* PageChunks: a request split at page boundaries; off is the offset into its buffer
RECURSIVE page_chunks(_, _, _)
page_chunks(addr, len, off) ==
    IF len = 0 THEN <<>>
    ELSE LET n == Min(len, PageBase(addr) + PageSize - addr)
         IN  <<[addr |-> addr, len |-> n, off |-> off]>>
             \o page_chunks(addr + n, len - n, off + n)

\* PageCache::cached_page_mut(paddr, false): the slot's page, Valid if it is this page
\* and the validator accepts the slot
cached_page_mut(cache, v1, paddr) ==
    LET s == SlotOf(Len(cache), paddr)
    IN  [address  |-> PageBase(paddr),
         validity |-> IF cache[s + 1].address = PageBase(paddr) /\ v1[s + 1]
                      THEN "Valid" ELSE "Invalid",
         buf      |-> cache[s + 1].buf]

\* PageCache::put_entry: a Valid entry goes back into its slot; nothing is allocated
put_entry(cache, entry) ==
    IF entry.validity = "Valid"
    THEN [cache EXCEPT ![SlotOf(Len(cache), entry.address) + 1] =
              [address |-> entry.address, buf |-> entry.buf]]
    ELSE cache

\* the page_chunks loop of phys_write_iter's inspect closure, chunks k.. of one entry,
\* leaving the cached page as it is
RECURSIVE write_chunks_no_copy(_, _, _, _, _)
write_chunks_no_copy(cache, v1, data, chunks, k) ==
    IF k > Len(chunks) THEN cache
    ELSE LET cached_page == cached_page_mut(cache, v1, chunks[k].addr)
         IN  write_chunks_no_copy(put_entry(cache, cached_page), v1, data, chunks, k + 1)

\* the page_chunks loop handing the page back under the chunk's own address
RECURSIVE write_chunks_unaligned(_, _, _, _, _)
write_chunks_unaligned(cache, v1, data, chunks, k) ==
    IF k > Len(chunks) THEN cache
    ELSE LET c           == chunks[k]
             cached_page == cached_page_mut(cache, v1, c.addr)
             start       == c.addr - cached_page.address
             buf2        == [o \in 1..PageSize |->
                               IF o - 1 >= start /\ o - 1 < start + c.len
                               THEN data[c.off + (o - 1 - start) + 1]
                               ELSE cached_page.buf[o]]
             written     == IF cached_page.validity = "Valid"
                            THEN [cached_page EXCEPT !.buf = buf2, !.address = c.addr]
                            ELSE cached_page
         IN  write_chunks_unaligned(put_entry(cache, written), v1, data, chunks, k + 1)

\* the page_chunks loop writing into whatever the slot holds and marking it Valid
RECURSIVE write_chunks_allocate(_, _, _, _, _)
write_chunks_allocate(cache, v1, data, chunks, k) ==
    IF k > Len(chunks) THEN cache
    ELSE LET c           == chunks[k]
             cached_page == cached_page_mut(cache, v1, c.addr)
             start       == c.addr - cached_page.address
             buf2        == [o \in 1..PageSize |->
                               IF o - 1 >= start /\ o - 1 < start + c.len
                               THEN data[c.off + (o - 1 - start) + 1]
                               ELSE cached_page.buf[o]]
             written     == [cached_page EXCEPT !.buf = buf2, !.validity = "Valid"]
         IN  write_chunks_allocate(put_entry(cache, written), v1, data, chunks, k + 1)

\* the page_chunks loop of phys_write_iter's inspect closure, chunks k.. of one entry
RECURSIVE write_chunks(_, _, _, _, _)
write_chunks(cache, v1, data, chunks, k) ==
    IF k > Len(chunks) THEN cache
    ELSE LET c           == chunks[k]
             cached_page == cached_page_mut(cache, v1, c.addr)
             start       == c.addr - cached_page.address
             buf2        == [o \in 1..PageSize |->
                               IF o - 1 >= start /\ o - 1 < start + c.len
                               THEN data[c.off + (o - 1 - start) + 1]
                               ELSE cached_page.buf[o]]
             written     == IF cached_page.validity = "Valid"
                            THEN [cached_page EXCEPT !.buf = buf2]
                            ELSE cached_page
         IN  write_chunks(put_entry(cache, written), v1, data, chunks, k + 1)

\* the inspect closure of phys_write_iter over the entries the backend pulls
RECURSIVE inspect(_, _, _, _, _)
inspect(cache, v1, batch, i, consumed) ==
    IF i > consumed THEN cache
    ELSE LET e == batch[i]
             c == IF is_cached_page_type(e.pt)
                  THEN write_chunks(cache, v1, e.data,
                                    page_chunks(e.addr, Len(e.data), 0), 1)
                  ELSE cache
         IN  inspect(c, v1, batch, i + 1, consumed)

\* the backend's phys_write_iter: entries i.. applied in order
RECURSIVE backend_write(_, _, _)
backend_write(m, batch, i) ==
    IF i > Len(batch) THEN m
    ELSE LET e == batch[i]
         IN  backend_write([a \in Addrs |->
                              IF a >= e.addr /\ a < e.addr + Len(e.data)
                              THEN e.data[a - e.addr + 1] ELSE m[a]],
                           batch, i + 1)

\* the validator consultations of the inspect closure: one slot lookup per page chunk
\* of every masked entry the backend pulls
RECURSIVE write_lookups(_, _, _)
write_lookups(batch, i, consumed) ==
    IF i > consumed THEN <<>>
    ELSE (IF is_cached_page_type(batch[i].pt)
          THEN [k \in 1..Len(page_chunks(batch[i].addr, Len(batch[i].data), 0)) |->
                   "is_slot_valid"]
          ELSE <<>>)
         \o write_lookups(batch, i + 1, consumed)

\* what Iterator::inspect yields to the backend: the entries it pulls, as they are
forwarded(batch, consumed) == SubSeq(batch, 1, consumed)

\* a write path that drops the backend's result
phys_write_iter_swallow(cache, v1, m, batch, consumed, bres) ==
    LET fwd == forwarded(batch, consumed)
    IN  [cache |-> inspect(cache, v1, batch, 1, consumed),
         mem   |-> IF bres = "Ok" THEN backend_write(m, fwd, 1) ELSE m,
         ok    |-> TRUE,
         res   |-> "Ok",
         fwd   |-> fwd,
         calls |-> 1,
         vlog  |-> <<"update_validity">> \o write_lookups(batch, 1, consumed)]

\* a write path that forwards only the entries it also puts into the cache
phys_write_iter_masked_only(cache, v1, m, batch, consumed, bres) ==
    LET fwd == SelectSeq(forwarded(batch, consumed), LAMBDA e : is_cached_page_type(e.pt))
    IN  [cache |-> inspect(cache, v1, batch, 1, consumed),
         mem   |-> IF bres = "Ok" THEN backend_write(m, fwd, 1) ELSE m,
         ok    |-> bres = "Ok",
         res   |-> bres,
         fwd   |-> fwd,
         calls |-> 1,
         vlog  |-> <<"update_validity">> \o write_lookups(batch, 1, consumed)]

\* CachedMemoryAccess::phys_write_iter, after update_validity: the backend pulls
\* `consumed` entries through the inspect closure (all of them when it succeeds)
\* (bres is what the backend's call returns: "Ok" or one of BackendErrors);
\* `vlog` is the order of the calls made on the validator;
\* the `calls` field counts the backend's phys_write_iter calls, `fwd` is what it received
phys_write_iter(cache, v1, m, batch, consumed, bres) ==
    LET fwd == forwarded(batch, consumed)
    IN  [cache |-> inspect(cache, v1, batch, 1, consumed),
         mem   |-> IF bres = "Ok" THEN backend_write(m, fwd, 1) ELSE m,
         ok    |-> bres = "Ok",
         res   |-> bres,
         fwd   |-> fwd,
         calls |-> 1,
         vlog  |-> <<"update_validity">> \o write_lookups(batch, 1, consumed)]

\* the chunks of a whole read batch, in order, each with its request index
RECURSIVE batch_chunks(_, _)
batch_chunks(batch, i) ==
    IF i > Len(batch) THEN <<>>
    ELSE LET cs == page_chunks(batch[i].addr, batch[i].len, 0)
         IN  [k \in 1..Len(cs) |->
                [req |-> i, addr |-> cs[k].addr, len |-> cs[k].len, off |-> cs[k].off,
                 pt |-> batch[i].pt]]
             \o batch_chunks(batch, i + 1)

\* a lookup that takes whatever page sits in the slot, without comparing addresses
chunk_kind_any_page(cache, v1, c) ==
    IF ~is_cached_page_type(c.pt) THEN "bypass"
    ELSE IF cache[SlotOf(Len(cache), c.addr) + 1].address # NoAddr
            /\ v1[SlotOf(Len(cache), c.addr) + 1] THEN "hit"
    ELSE "miss"

\* step 3 of the read path: how a chunk is served
chunk_kind(cache, v1, c) ==
    IF ~is_cached_page_type(c.pt) THEN "bypass"
    ELSE IF cached_page_mut(cache, v1, c.addr).validity = "Valid" THEN "hit"
    ELSE "miss"

\* the one batched backend read: the page of every miss, and every bypassing chunk
RECURSIVE backend_list(_, _, _, _)
backend_list(cache, v1, cs, k) ==
    IF k > Len(cs) THEN <<>>
    ELSE LET kind == chunk_kind(cache, v1, cs[k])
         IN  (CASE kind = "hit"    -> <<>>
                [] kind = "miss"   -> <<[addr |-> PageBase(cs[k].addr), len |-> PageSize]>>
                [] kind = "bypass" -> <<[addr |-> cs[k].addr, len |-> cs[k].len]>>)
             \o backend_list(cache, v1, cs, k + 1)

\* PageCache::cached_read, after update_validity
cached_read(cache, v1, m, batch, bres) ==
    LET cs     == batch_chunks(batch, 1)
        blist  == backend_list(cache, v1, cs, 1)
        ok     == blist = <<>> \/ bres = "Ok"
        misses(s) == {k \in 1..Len(cs) :
                        chunk_kind(cache, v1, cs[k]) = "miss"
                        /\ SlotOf(Len(cache), cs[k].addr) = s}
        lastMiss(s) == CHOOSE k \in misses(s) : \A k2 \in misses(s) : k2 <= k
        page(base) == [o \in 1..PageSize |-> m[base + o - 1]]
        byte(a, pt) ==
            LET c == [req |-> 0, addr |-> a, len |-> 1, off |-> 0, pt |-> pt]
            IN  IF chunk_kind(cache, v1, c) = "hit"
                THEN cache[SlotOf(Len(cache), a) + 1].buf[a - PageBase(a) + 1]
                ELSE m[a]
    IN  IF ~ok
        THEN [ok |-> FALSE, res |-> bres, data |-> <<>>, cache |-> cache, valid |-> v1,
              blist |-> blist]
        ELSE [ok    |-> TRUE,
              res   |-> "Ok",
              data  |-> [i \in 1..Len(batch) |->
                           [j \in 1..batch[i].len |-> byte(batch[i].addr + j - 1, batch[i].pt)]],
              cache |-> [s1 \in 1..Len(cache) |->
                           IF misses(s1 - 1) = {} THEN cache[s1]
                           ELSE [address |-> PageBase(cs[lastMiss(s1 - 1)].addr),
                                 buf     |-> page(PageBase(cs[lastMiss(s1 - 1)].addr))]],
              valid |-> [s1 \in 1..Len(cache) |-> v1[s1] \/ misses(s1 - 1) # {}],
              blist |-> blist]

\* the validator consultations of cached_read: one slot lookup per masked chunk
read_lookups(batch) ==
    LET cs == batch_chunks(batch, 1)
        RECURSIVE go(_)
        go(k) == IF k > Len(cs) THEN <<>>
                 ELSE (IF is_cached_page_type(cs[k].pt) THEN <<"is_slot_valid">> ELSE <<>>)
                      \o go(k + 1)
    IN  go(1)

\* a read path that refreshes the validator only after the lookups
phys_read_iter_late_update(cache, v1, m, batch, bres) ==
    [vlog |-> read_lookups(batch) \o <<"update_validity">>]
        @@ cached_read(cache, v1, m, batch, bres)

\* a read path that takes every request for one of a cached page type
phys_read_iter_cache_all(cache, v1, m, batch, bres) ==
    LET masked == [i \in 1..Len(batch) |-> [batch[i] EXCEPT !.pt = {"READ_ONLY"}]]
    IN  [vlog |-> <<"update_validity">> \o read_lookups(masked)]
            @@ cached_read(cache, v1, m, masked, bres)

\* CachedMemoryAccess::phys_read_iter: update_validity (giving v1), arena reset, cached_read;
\* `vlog` is the order of the calls made on the validator
phys_read_iter(cache, v1, m, batch, bres) ==
    [vlog |-> <<"update_validity">> \o read_lookups(batch)]
        @@ cached_read(cache, v1, m, batch, bres)

(***************************************************************************)
(* Actions: CachedMemoryAccess                                             *)
(***************************************************************************)
\* CacheValidator::update_validity: slots may expire; none comes back by itself
update_validity(v) == {v1 \in [1..Len(v) -> BOOLEAN] : \A s \in 1..Len(v) : v1[s] => v[s]}

AllValid(v1) == \A s \in 1..Len(v1) : v1[s]

Ranges == {r \in Addrs \X (1..MaxLen) : r[1] + r[2] <= MemSize}

ReadReqs == {[addr |-> r[1], len |-> r[2], pt |-> pt] : r \in Ranges, pt \in PageTypes}

\* the bytes entry i of call k writes: all distinct, and unlike anything in memory
WData(k, i, len) == [j \in 1..len |-> 100 * k + 10 * i + j]

WriteReqs(k, i) ==
    {[addr |-> r[1], data |-> WData(k, i, r[2]), pt |-> pt] : r \in Ranges, pt \in PageTypes}

ReadBatches(n) == SeqsUpTo(ReadReqs, n) \ {<<>>}

RECURSIVE WriteSeqs(_, _)
WriteSeqs(k, n) ==
    IF n = 0 THEN {<<>>}
    ELSE LET shorter == WriteSeqs(k, n - 1)
         IN  shorter \cup {Append(q, x) : q \in {r \in shorter : Len(r) = n - 1},
                                          x \in WriteReqs(k, n)}

WriteBatches(k, n) == WriteSeqs(k, n) \ {<<>>}

NoOp == [op |-> "none", batch |-> <<>>, ok |-> TRUE, data |-> <<>>, blist |-> <<>>,
         consumed |-> 0, v1 |-> <<>>, fwd |-> <<>>, calls |-> 0, res |-> "Ok",
         bres |-> "none", vlog |-> <<>>, pre |-> <<>>]

CacheInitWith(n) ==
    /\ mem = [a \in Addrs |-> 10 + a]
    /\ slots = [s \in 1..n |-> [address |-> NoAddr, buf |-> [o \in 1..PageSize |-> 0]]]
    /\ valid = [s \in 1..n |-> TRUE]
    /\ ops = 0
    /\ last = NoOp
    /\ fresh = [a \in Addrs |-> NoByte]
    /\ resident = {}
    /\ hot = [a \in Addrs |-> NoByte]

CacheInit == \E n \in 1..MaxSlots : CacheInitWith(n)

\* pages whose slot a miss of this read batch (re)fills
Missed(cache, v1, batch, s) ==
    LET cs == batch_chunks(batch, 1)
    IN  {k \in 1..Len(cs) : chunk_kind(cache, v1, cs[k]) = "miss"
                            /\ SlotOf(Len(cache), cs[k].addr) = s}

\* pages that stay resident over a call: accepted by the validator, slot not refilled
Staying(cache, v1, refilled) ==
    {p \in resident : v1[SlotOf(Len(cache), p) + 1] /\ SlotOf(Len(cache), p) \notin refilled}

\* index of the last entry of a write batch that covers address a (0: none)
LastCovering(batch, a) ==
    LET is == {i \in 1..Len(batch) :
                 a >= batch[i].addr /\ a < batch[i].addr + Len(batch[i].data)}
    IN  IF is = {} THEN 0 ELSE CHOOSE i \in is : \A i2 \in is : i2 <= i

ReadUpTo(n) ==
    /\ ops < MaxOps
    /\ last.op = "none"
    /\ \E batch \in ReadBatches(n), v1 \in update_validity(valid), bres \in BackendResults :
         LET r        == phys_read_iter(slots, v1, mem, batch, bres)
             cs       == batch_chunks(batch, 1)
             refilled == IF r.ok
                         THEN {s \in 0..(Len(slots) - 1) : Missed(slots, v1, batch, s) # {}}
                         ELSE {}
             lastOf(s) == CHOOSE k \in Missed(slots, v1, batch, s) :
                             \A k2 \in Missed(slots, v1, batch, s) : k2 <= k
             stay     == Staying(slots, v1, refilled)
         IN  /\ bres = "Ok" \/ r.blist # <<>>
             /\ slots' = r.cache
             /\ valid' = r.valid
             /\ mem' = mem
             /\ last' = [op |-> "read", batch |-> batch, ok |-> r.ok, data |-> r.data,
                         blist |-> r.blist, consumed |-> 0, v1 |-> v1,
                         fwd |-> <<>>, calls |-> IF r.blist = <<>> THEN 0 ELSE 1,
                         res |-> r.res, bres |-> IF r.blist = <<>> THEN "none" ELSE bres,
                         vlog |-> r.vlog,
                         pre |-> [s \in 1..Len(slots) |-> slots[s].address]]
             /\ fresh' = IF AllValid(v1) THEN fresh ELSE [a \in Addrs |-> NoByte]
             /\ resident' = stay \cup {PageBase(cs[lastOf(s)].addr) : s \in refilled}
             /\ hot' = [a \in Addrs |-> IF PageBase(a) \in stay THEN hot[a] ELSE NoByte]
    /\ ops' = ops + 1
    /\ UNCHANGED <<archVars, walkVars, buildVars, strVars>>

\* a batched read through the handle
Read == ReadUpTo(MaxReqs)

\* a batched read of several requests
ReadBatch == ReadUpTo(MaxReadBatch)

WriteUpTo(n) ==
    /\ ops < MaxOps
    /\ last.op = "none"
    /\ \E batch \in WriteBatches(ops + 1, n), v1 \in update_validity(valid),
          bres \in BackendResults, consumed \in 0..n :
         LET r    == phys_write_iter(slots, v1, mem, batch, consumed, bres)
             stay == Staying(slots, v1, {})
         IN  /\ consumed <= Len(batch)
             /\ bres = "Ok" => consumed = Len(batch)
             /\ slots' = r.cache
             /\ valid' = v1
             /\ mem' = r.mem
             /\ last' = [op |-> "write", batch |-> batch, ok |-> r.ok, data |-> <<>>,
                         blist |-> <<>>, consumed |-> consumed, v1 |-> v1,
                         fwd |-> r.fwd, calls |-> r.calls, res |-> r.res, bres |-> bres,
                         vlog |-> r.vlog,
                         pre |-> [s \in 1..Len(slots) |-> slots[s].address]]
             /\ fresh' = [a \in Addrs |->
                            LET i == LastCovering(batch, a)
                            IN  IF ~AllValid(v1) THEN NoByte
                                ELSE IF i = 0 THEN fresh[a]
                                ELSE IF r.ok THEN batch[i].data[a - batch[i].addr + 1]
                                ELSE NoByte]
             /\ resident' = stay
             /\ hot' = [a \in Addrs |->
                          LET i == LastCovering(batch, a)
                          IN  IF PageBase(a) \notin stay THEN NoByte
                              ELSE IF i = 0 THEN hot[a]
                              ELSE IF i <= consumed /\ is_cached_page_type(batch[i].pt)
                                   THEN batch[i].data[a - batch[i].addr + 1]
                              ELSE NoByte]
    /\ ops' = ops + 1
    /\ UNCHANGED <<archVars, walkVars, buildVars, strVars>>

\* a batched write through the handle
Write == WriteUpTo(MaxReqs)

\* a batched write of several entries
WriteBatch == WriteUpTo(MaxWriteBatch)

\* the caller takes the result of the call and drops the request buffers
Return ==
    /\ last.op # "none"
    /\ last' = NoOp
    /\ UNCHANGED <<mem, slots, valid, ops, fresh, resident, hot, archVars, walkVars,
                   buildVars, strVars>>

(***************************************************************************)
(* CachedMemoryAccessBuilder                                               *)
(***************************************************************************)
None    == [some |-> FALSE]
Some(x) == [some |-> TRUE, v |-> x]

\* Length::from_kb, Length::from_mb, in bytes
from_kb(n) == n * 1024
from_mb(n) == n * 1024 * 1024

\* Architecture::page_size, in bytes
arch_page_size(self) ==
    CASE self = "Null"   -> ToNat(x64_page_size)
      [] self = "X64"    -> ToNat(x64_page_size)
      [] self = "X86Pae" -> ToNat(page_size_level(x86_pae_get_mmu_spec, 1))
      [] self = "X86"    -> ToNat(page_size_level(x86_get_mmu_spec, 1))

\* impl Default for CachedMemoryAccessBuilder
builder_default ==
    [mem |-> None, validator |-> None, page_size |-> None,
     cache_size |-> from_mb(2), page_type_mask |-> DefaultMask]

\* the setters; each takes the builder and hands it back
builder_mem(self, m)               == [self EXCEPT !.mem = Some(m)]
builder_validator(self, validator) == [self EXCEPT !.validator = Some(validator)]
builder_page_size(self, page_size) == [self EXCEPT !.page_size = Some(page_size)]
builder_cache_size(self, cache_size) == [self EXCEPT !.cache_size = cache_size]
builder_page_type_mask(self, mask) == [self EXCEPT !.page_type_mask = mask]

\* an arch() that keeps a page size already set
builder_arch_keep(self, a) ==
    IF self.page_size.some THEN self
    ELSE [self EXCEPT !.page_size = Some(arch_page_size(a))]

\* CachedMemoryAccessBuilder::arch
builder_arch(self, a) == [self EXCEPT !.page_size = Some(arch_page_size(a))]

ConfigErrors == {"mem must be initialized", "page_size must be initialized",
                 "validator must be initialized"}

\* CachedMemoryAccessBuilder::build: the ok_or(..)? in the order the arguments of
\* CachedMemoryAccess::with and PageCache::with_page_size are evaluated
builder_build(self) ==
    IF ~self.mem.some THEN [op |-> "build", ok |-> FALSE, err |-> "mem must be initialized"]
    ELSE IF ~self.page_size.some
    THEN [op |-> "build", ok |-> FALSE, err |-> "page_size must be initialized"]
    ELSE IF ~self.validator.some
    THEN [op |-> "build", ok |-> FALSE, err |-> "validator must be initialized"]
    ELSE [op |-> "build", ok |-> TRUE,
          mem |-> self.mem.v, validator |-> self.validator.v,
          page_size |-> self.page_size.v, cache_size |-> self.cache_size,
          page_type_mask |-> self.page_type_mask]

\* what the setters are called with
PageSizeArgs  == {from_kb(8), from_kb(16)}
CacheSizeArgs == {from_mb(1), from_mb(4)}
MaskArgs      == {{"WRITEABLE"}, {"PAGE_TABLE"}}

NotBuilt == [op |-> "none"]
NoCalls  == [mem |-> FALSE, validator |-> FALSE, psFirst |-> 0, ps |-> 0, cs |-> 0,
             mask |-> {}]

BuildInit ==
    /\ builder = builder_default
    /\ built = NotBuilt
    /\ calls = NoCalls

Untouched == UNCHANGED <<archVars, walkVars, cacheVars, strVars>>

\* CachedMemoryAccess::builder(): a fresh builder
Builder ==
    /\ built # NotBuilt
    /\ builder' = builder_default
    /\ built' = NotBuilt
    /\ calls' = NoCalls
    /\ Untouched

SetMem ==
    /\ built = NotBuilt
    /\ builder' = builder_mem(builder, "mem")
    /\ calls' = [calls EXCEPT !.mem = TRUE]
    /\ UNCHANGED built /\ Untouched

SetValidator ==
    /\ built = NotBuilt
    /\ builder' = builder_validator(builder, "validator")
    /\ calls' = [calls EXCEPT !.validator = TRUE]
    /\ UNCHANGED built /\ Untouched

SetPageSize ==
    /\ built = NotBuilt
    /\ \E ps \in PageSizeArgs :
         /\ builder' = builder_page_size(builder, ps)
         /\ calls' = [calls EXCEPT !.ps = ps,
                                   !.psFirst = IF calls.psFirst = 0 THEN ps ELSE @]
    /\ UNCHANGED built /\ Untouched

SetCacheSize ==
    /\ built = NotBuilt
    /\ \E cs \in CacheSizeArgs :
         /\ builder' = builder_cache_size(builder, cs)
         /\ calls' = [calls EXCEPT !.cs = cs]
    /\ UNCHANGED built /\ Untouched

SetArch ==
    /\ built = NotBuilt
    /\ \E a \in Architectures :
         /\ builder' = builder_arch(builder, a)
         /\ calls' = [calls EXCEPT !.ps = arch_page_size(a),
                                   !.psFirst = IF calls.psFirst = 0
                                               THEN arch_page_size(a) ELSE @]
    /\ UNCHANGED built /\ Untouched

SetPageTypeMask ==
    /\ built = NotBuilt
    /\ \E m \in MaskArgs :
         /\ builder' = builder_page_type_mask(builder, m)
         /\ calls' = [calls EXCEPT !.mask = m]
    /\ UNCHANGED built /\ Untouched

Build ==
    /\ built = NotBuilt
    /\ built' = builder_build(builder)
    /\ UNCHANGED <<builder, calls>> /\ Untouched

(***************************************************************************)
(* PhysicalMemory::phys_read_char_string                                   *)
(***************************************************************************)
\* what the backend holds from the address on: the byte 97 ('a') everywhere, except
\* zero bytes at the offsets `zeros` and the bytes `special` from offset `at` on
ByteAt(m, i) ==
    IF i \in m.zeros THEN 0
    ELSE IF i >= m.at /\ i < m.at + Len(m.special) THEN m.special[i - m.at + 1]
    ELSE 97

\* PhysicalMemory::phys_read_raw_into: one backend read of Len(out) bytes at addr
phys_read_raw_into(m, failing, len) ==
    IF failing THEN [ok |-> FALSE, err |-> "Io"]
    ELSE [ok |-> TRUE, out |-> [i \in 1..len |-> ByteAt(m, i - 1)]]

IsLead(b) == b >= 194 /\ b <= 223
IsCont(b) == b >= 128 /\ b <= 191

\* String::from_utf8_lossy(..).to_string(), as UTF-8 bytes, for input made of one-byte
\* and two-byte sequences and of bytes that start no sequence: what does not decode
\* becomes U+FFFD (EF BF BD)
from_utf8_lossy(buf) ==
    LET piece(i) ==
            LET b == buf[i]
            IN  IF b < 128 THEN <<b>>
                ELSE IF IsLead(b)
                THEN (IF i < Len(buf) /\ IsCont(buf[i + 1]) THEN <<b>> ELSE <<239, 191, 189>>)
                ELSE IF IsCont(b)
                THEN (IF i > 1 /\ IsLead(buf[i - 1]) THEN <<b>> ELSE <<239, 191, 189>>)
                ELSE <<239, 191, 189>>
        RECURSIVE flat(_, _)
        flat(lo, hi) == IF lo > hi THEN <<>>
                        ELSE IF lo = hi THEN piece(lo)
                        ELSE flat(lo, (lo + hi) \div 2) \o flat((lo + hi) \div 2 + 1, hi)
    IN  flat(1, Len(buf))

OutOfBounds == [op |-> "returned", ok |-> FALSE, err |-> "OutOfBounds"]
Running     == [op |-> "running"]

\* one iteration of the loop that stops doubling one step early
char_string_iteration_short(m, failing, len) ==
    LET r     == phys_read_raw_into(m, failing, len)
        zeros == {i \in 1..len : r.out[i] = 0}
        n     == CHOOSE i \in zeros : \A j \in zeros : i <= j
    IN  IF ~r.ok THEN [res |-> [op |-> "returned", ok |-> FALSE, err |-> r.err], len |-> len]
        ELSE IF zeros # {}
        THEN [res |-> [op |-> "returned", ok |-> TRUE,
                       string |-> from_utf8_lossy(SubSeq(r.out, 1, n - 1))],
              len |-> n - 1]
        ELSE IF len * 2 >= StringLimit THEN [res |-> OutOfBounds, len |-> len]
        ELSE [res |-> Running, len |-> len + len]

\* one iteration of the loop of phys_read_char_string, with buf.len() = len: what the
\* call returns, if it does, and buf.len() afterwards
char_string_iteration(m, failing, len) ==
    LET r     == phys_read_raw_into(m, failing, len)
        zeros == {i \in 1..len : r.out[i] = 0}
        n     == CHOOSE i \in zeros : \A j \in zeros : i <= j
    IN  IF ~r.ok THEN [res |-> [op |-> "returned", ok |-> FALSE, err |-> r.err], len |-> len]
        ELSE IF zeros # {}
        THEN [res |-> [op |-> "returned", ok |-> TRUE,
                       string |-> from_utf8_lossy(SubSeq(r.out, 1, n - 1))],
              len |-> n - 1]
        ELSE IF len * 2 > StringLimit THEN [res |-> OutOfBounds, len |-> len]
        ELSE [res |-> Running, len |-> len + len]

\* the calls explored
StrAddrs   == {0, 4096}
StrZeros   == {{}, {0}, {5}, {31}, {32}, {5, 40}, {63}, {64}, {1000}, {2047, 3000},
               {4095}, {4096}}
StrSpecial == {<<>>, <<255>>, <<195, 169>>, <<195>>, <<169>>}
StrAt      == {0, 4, 31}
StrInputs  ==
    {[addr |-> a, m |-> [zeros |-> z, special |-> sp, at |-> at], fail |-> f] :
        a \in StrAddrs, z \in StrZeros, sp \in StrSpecial, at \in StrAt, f \in 0..MaxFail}

StrIdle ==
    /\ strIn = [addr |-> 0, m |-> [zeros |-> {0}, special |-> <<>>, at |-> 0], fail |-> 0]
    /\ strBuf = InitialBufLen
    /\ strLog = <<>>
    /\ strRes = Running

StrInit ==
    /\ strIn \in StrInputs
    /\ strBuf = InitialBufLen
    /\ strLog = <<>>
    /\ strRes = Running

\* one iteration of the loop
ReadCharString ==
    /\ strRes = Running
    /\ LET r == char_string_iteration(strIn.m, strIn.fail = Len(strLog) + 1, strBuf)
       IN  /\ strLog' = Append(strLog, [addr |-> strIn.addr, len |-> strBuf])
           /\ strBuf' = r.len
           /\ strRes' = r.res
    /\ UNCHANGED <<strIn, archVars, walkVars, cacheVars, buildVars>>

(***************************************************************************)
(* Specifications                                                          *)
(***************************************************************************)
WalkFixed ==
    /\ arch = "Null"
    /\ dtb = {}
    /\ layout = "S2"
    /\ WalkIdle

\* one CachedMemoryAccess over its backend: batched reads and writes
Init == ArchInit /\ WalkFixed /\ CacheInit /\ BuildInit /\ StrIdle
Next == Read \/ Write \/ Return
Spec == Init /\ [][Next]_vars

\* the same handle used for reads alone: the backend never changes
NextRead == ReadBatch \/ Return
SpecRead == Init /\ [][NextRead]_vars

\* the same handle with whole batches of writes
NextWrite == (ops < MaxWriteOps /\ Read) \/ (ops < MaxWriteOps /\ WriteBatch) \/ Return
SpecWrite == Init /\ [][NextWrite]_vars

\* single reads and writes, and batched reads in the first calls
NextMixed == (ops < MaxWriteOps /\ ReadBatch) \/ Read \/ Write \/ Return
SpecMixed == Init /\ [][NextMixed]_vars

\* translations of batches and of single addresses over a fixed page-table image
InitWalk == ArchInit /\ WalkInit /\ CacheInitWith(1) /\ BuildInit /\ StrIdle
NextWalk == VirtToPhysIter \/ VirtToPhys
SpecWalk == InitWalk /\ [][NextWalk]_vars

\* encoding and decoding of the architecture tag
InitArch == ArchInit /\ WalkFixed /\ CacheInitWith(1) /\ BuildInit /\ StrIdle

\* one CachedMemoryAccessBuilder: setters in any order, then build
InitBuild == ArchInit /\ WalkFixed /\ CacheInitWith(1) /\ BuildInit /\ StrIdle

\* one phys_read_char_string call, one loop iteration at a time
InitStr == ArchInit /\ WalkFixed /\ CacheInitWith(1) /\ BuildInit /\ StrInit
NextStr == ReadCharString
SpecStr == InitStr /\ [][NextStr]_vars
NextBuild == SetMem \/ SetValidator \/ SetPageSize \/ SetCacheSize \/ SetArch
             \/ SetPageTypeMask \/ Build \/ Builder
SpecBuild == InitBuild /\ [][NextBuild]_vars
NextArch == TryFrom \/ RoundTrip
SpecArch == InitArch /\ [][NextArch]_vars

(***************************************************************************)
(* Properties: translation and tags                                        *)
(***************************************************************************)
\* the results the last translation call produced, in input order
Results ==
    CASE wOp = "iter"   -> SubSeq(wOut, Len(wPre) + 1, Len(wOut))
      [] wOp = "single" -> <<wRet>>
      [] OTHER          -> <<>>

Remove(q, k) == SubSeq(q, 1, k - 1) \o SubSeq(q, k + 1, Len(q))

RootX64 == FromHex(<<1,0,0,0>>)

\* C3: virt_to_phys_iter appends exactly one result per input address to `out`, leaves
\* what `out` held in place, the i-th appended result is what virt_to_phys returns for
\* the i-th address on the same backend, and virt_to_phys always has a result to pop.
C3_BatchingDeterminism ==
    /\ wOp = "iter" =>
         /\ Len(wOut) = Len(wPre) + Len(wBatch)
         /\ SubSeq(wOut, 1, Len(wPre)) = wPre
         /\ \A i \in 1..Len(wBatch) :
               wOut[Len(wPre) + i] = virt_to_phys(arch, Image(layout), wFail, dtb, wBatch[i])
    /\ wOp = "single" => wRet # Panic /\ wRet # Pending

C3_Witness ==
    /\ wOp = "iter" /\ arch = "X64" /\ layout = "S2" /\ dtb = RootX64 /\ wFail = 0
    /\ wPre # <<>>
    /\ wBatch = <<V3, V1>>
    /\ wOut[Len(wPre) + 1] = PageNotPresent
    /\ wOut[Len(wPre) + 2].ok

\* C4: try_from(A.as_u8()) = Ok(A) for every Architecture A, with the tags Null = 0,
\* X64 = 1, X86Pae = 2, X86 = 3; try_from of any byte in 4..=255 is an error.
C4_TagRoundTrip ==
    /\ tagRes.op = "round_trip" =>
         /\ tagRes.back = [ok |-> TRUE, val |-> tagRes.from]
         /\ tagIn = (CASE tagRes.from = "Null"   -> 0
                       [] tagRes.from = "X64"    -> 1
                       [] tagRes.from = "X86Pae" -> 2
                       [] tagRes.from = "X86"    -> 3)
    /\ tagRes.op = "try_from" /\ tagIn >= 4 => ~tagRes.res.ok
    /\ tagRes.op = "try_from" /\ tagRes.res.ok => tagRes.tag = tagIn

C4_Witness == tagRes.op = "round_trip" /\ tagRes.from = "X86Pae" /\ tagIn = 2

\* the S2 page tables: PML4[0] -> PDPT[0] -> PD[2] -> PT[1] -> frame 0x7777_0000
IsS2Walk == arch = "X64" /\ layout = "S2" /\ dtb = RootX64 /\ wFail = 0

\* C7 as stated: translating 0x0040_1234 over the S2 tables yields 0x7777_1234, 4 KiB.
C7_Original ==
    IsS2Walk =>
        \A i \in 1..Len(Results) :
            wBatch[i] = V1 =>
                /\ Results[i].ok
                /\ Results[i].address = FromHex(<<7,7,7,7,1,2,3,4>>)
                /\ Results[i].page_size = {12}

\* C7 (amended): translating 0x0040_1234 over the S2 tables yields 0x7777_0234 with a
\* page size of 4 KiB: the frame 0x7777_0000 plus the low 12 bits of the address.
C7_Walk4K ==
    IsS2Walk =>
        \A i \in 1..Len(Results) :
            wBatch[i] = V1 =>
                /\ Results[i].ok
                /\ Results[i].address = FromHex(<<7,7,7,7,0,2,3,4>>)
                /\ Results[i].page_size = {12}

C7_Witness == IsS2Walk /\ wOp = "single" /\ wBatch = <<V1>> /\ wRet.ok /\ wReads = 4

\* the S3 page tables: S2 with PD[2] a large page at 0x8000_0000
IsS3Walk == arch = "X64" /\ layout = "S3" /\ dtb = RootX64 /\ wFail = 0

\* C8 as stated: translating 0x0040_1234 over the S3 tables yields 0x8020_1234, 2 MiB,
\* the walk ending at step 3 without a read of the PT level.
C8_Original ==
    IsS3Walk =>
        /\ \A i \in 1..Len(Results) :
              wBatch[i] = V1 =>
                  /\ Results[i].ok
                  /\ Results[i].address = FromHex(<<8,0,2,0,1,2,3,4>>)
                  /\ Results[i].page_size = {21}
        /\ wOp = "single" /\ wBatch = <<V1>> => wReads = 3

\* C8 (amended): translating 0x0040_1234 over the S3 tables yields 0x8000_1234 with a
\* page size of 2 MiB (the base 0x8000_0000 plus the low 21 bits of the address); the
\* walk ends at step 3, a member of valid_final_page_steps, after three backend reads,
\* the PT level never being read.
C8_Walk2M ==
    IsS3Walk =>
        /\ \A i \in 1..Len(Results) :
              wBatch[i] = V1 =>
                  /\ Results[i].ok
                  /\ Results[i].address = FromHex(<<8,0,0,0,1,2,3,4>>)
                  /\ Results[i].page_size = {21}
        /\ wOp = "single" /\ wBatch = <<V1>> =>
              wReads = 3 /\ 3 \in x64_get_mmu_spec.valid_final_page_steps

C8_Witness == IsS3Walk /\ wOp = "single" /\ wBatch = <<V1>> /\ wRet.ok /\ wReads = 3

\* the present bit of an x86-family PTE
PresentBit == 0

\* the MMU spec an architecture walks with
ArchSpec(self) ==
    CASE self = "X64"    -> x64_get_mmu_spec
      [] self = "X86Pae" -> x86_pae_get_mmu_spec
      [] self = "X86"    -> x86_get_mmu_spec

\* an address-at-a-time walk: does the walk of v meet a PTE whose present bit is clear?
RECURSIVE MeetsNotPresent(_, _, _, _, _)
MeetsNotPresent(spec, image, frame, v, s) ==
    LET e   == [v |-> v, frame |-> frame, slot |-> 0]
        pte == ReadPTE(image, pte_address(spec, s, e), spec.pte_size)
    IN  IF PresentBit \notin pte THEN TRUE
        ELSE IF s = Depth(spec) \/ Decode(spec, s, e, pte) # Pending THEN FALSE
        ELSE MeetsNotPresent(spec, image, pte_addr_field(spec, pte), v, s + 1)

\* C9: in a batched translation whose backend reads succeed, an address whose walk meets
\* a PTE with the present bit clear gets PageNotPresent in its own slot; the call still
\* delivers one result per address, even if every slot failed; and the results of the
\* other addresses are what they are for the batch without the failing address.
C9_PerSlotFailures ==
    wOp = "iter" /\ wFail = 0 /\ arch # "Null" =>
        /\ Len(Results) = Len(wBatch)
        /\ \A i \in 1..Len(wBatch) :
              MeetsNotPresent(ArchSpec(arch), Image(layout), dtb, wBatch[i], 1) =>
                  /\ Results[i] = PageNotPresent
                  /\ virt_to_phys_iter(arch, Image(layout), 0, dtb, Remove(wBatch, i), <<>>).out
                       = Remove(Results, i)

C9_Witness ==
    /\ wOp = "iter" /\ arch = "X64" /\ layout = "S4" /\ dtb = RootX64 /\ wFail = 0
    /\ wBatch = <<V1, V4>>
    /\ Results[1] = PageNotPresent
    /\ Results[2].ok

\* C10: under Architecture::Null, virt_to_phys_iter emits, for every input address in
\* input order, Ok with that very address and page type UNKNOWN, never an error, and
\* issues no backend read, whatever the DTB and the backend hold.
C10_NullIdentity ==
    arch = "Null" /\ wOp # "none" =>
        /\ Len(Results) = Len(wBatch)
        /\ \A i \in 1..Len(wBatch) :
              /\ Results[i].ok
              /\ Results[i].address = wBatch[i]
              /\ Results[i].page_type = {"UNKNOWN"}
        /\ wReads = 0
        /\ wOp = "iter" => SubSeq(wOut, 1, Len(wPre)) = wPre

C10_Witness ==
    /\ arch = "Null" /\ wOp = "iter" /\ layout = "S4"
    /\ wBatch = <<V4, V5>>
    /\ Results[1].address = V4 /\ 63 \in Results[1].address
    /\ Results[2].address = V5

(***************************************************************************)
(* Properties: the page cache                                              *)
(***************************************************************************)
\* address a of request i of a read batch: no other request touches a's page
Alone(batch, i, a) ==
    \A i2 \in 1..Len(batch) :
        i2 # i => \A j2 \in 1..batch[i2].len :
                      PageBase(batch[i2].addr + j2 - 1) # PageBase(a)

\* the batched backend read of a call fetches nothing that covers address a
NoBackendRead(blist, a) ==
    \A k \in 1..Len(blist) : ~(blist[k].addr <= a /\ a < blist[k].addr + blist[k].len)

\* C1 (cache soundness): a successful read returns, for every byte whose last write
\* through the handle succeeded and with every slot reported valid by the validator
\* from that write on, the byte that write wrote - whatever page types the write and
\* the read carry, and whether or not the page was cached before the write.
C1_CacheSoundness ==
    (last.op = "read" /\ last.ok) =>
        \A i \in 1..Len(last.batch) : \A j \in 1..last.batch[i].len :
            LET a == last.batch[i].addr + j - 1
            IN  fresh[a] # NoByte => last.data[i][j] = fresh[a]

\* C2 (cache transparency): with a backend nothing writes to, every successful batched
\* read through the handle returns, byte for byte, what the backend holds, for any
\* addresses, lengths, page types, number of slots and validator answers.
C2_CacheTransparency ==
    (last.op = "read" /\ last.ok) =>
        \A i \in 1..Len(last.batch) :
            /\ Len(last.data[i]) = last.batch[i].len
            /\ \A j \in 1..last.batch[i].len :
                   last.data[i][j] = mem[last.batch[i].addr + j - 1]

\* a third read through a single slot, of a masked range that spans the two pages
\* colliding on it; both chunks missed
C2_Witness ==
    /\ Len(slots) = 1
    /\ ops = 3
    /\ last.op = "read" /\ last.ok
    /\ \E i \in 1..Len(last.batch) :
           /\ last.batch[i].addr = PageSize - 1
           /\ last.batch[i].len = 2
           /\ is_cached_page_type(last.batch[i].pt)
           /\ last.data[i] = <<mem[PageSize - 1], mem[PageSize]>>
    /\ Len(last.blist) >= 2

\* a read step: bytes written in place into a page that is resident and still accepted
\* come back as written, and nothing covering them is read from the backend
C5_ReadStep ==
    last'.op = "read" =>
        \A i \in 1..Len(last'.batch) : \A j \in 1..last'.batch[i].len :
            LET a == last'.batch[i].addr + j - 1
                s == SlotOf(Len(slots), a) + 1
            IN  (/\ is_cached_page_type(last'.batch[i].pt)
                 /\ hot[a] # NoByte
                 /\ last'.v1[s]
                 /\ Alone(last'.batch, i, a))
                => /\ NoBackendRead(last'.blist, a)
                   /\ last'.ok => last'.data[i][j] = hot[a]

\* a write step: a page that is resident and still accepted keeps its slot, takes the
\* bytes of masked entries, and keeps every byte no entry of the call covers
C5_WriteStep ==
    last'.op = "write" =>
        \A p \in resident :
            LET s == SlotOf(Len(slots), p) + 1
            IN  last'.v1[s] =>
                  /\ slots'[s].address = p
                  /\ valid'[s]
                  /\ \A o \in 1..PageSize :
                         LET a == p + o - 1
                         IN  /\ hot'[a] # NoByte => slots'[s].buf[o] = hot'[a]
                             /\ LastCovering(last'.batch, a) = 0
                                    => slots'[s].buf[o] = slots[s].buf[o]

\* C5 (write-through update, S6): a write whose page type intersects the mask, to an
\* address inside a page that was read into the cache and is still valid, updates the
\* cached copy in place without invalidating it; a later masked read of those bytes
\* returns the written bytes without a backend read, and the bytes of the page outside
\* the written range are unchanged.
C5_WriteThroughUpdate == [][C5_ReadStep /\ C5_WriteStep]_vars

\* a read that returned a written byte out of the cache, with no backend read at all
C5_Witness ==
    /\ last.op = "read" /\ last.ok
    /\ last.blist = <<>>
    /\ \E i \in 1..Len(last.batch) : \E j \in 1..last.batch[i].len :
           /\ hot[last.batch[i].addr + j - 1] = last.data[i][j]
           /\ last.data[i][j] >= 100

\* C6 (cache hit, S5): once a masked read has missed and fetched a page, every later
\* masked read inside that page - the validator still accepting the slot, no colliding
\* page read in between - is served from the slot with no backend read and returns the
\* bytes the backend holds.
C6_CacheHit ==
    [][last'.op = "read" =>
          \A i \in 1..Len(last'.batch) : \A j \in 1..last'.batch[i].len :
              LET a == last'.batch[i].addr + j - 1
                  s == SlotOf(Len(slots), a) + 1
              IN  (/\ is_cached_page_type(last'.batch[i].pt)
                   /\ PageBase(a) \in resident
                   /\ last'.v1[s]
                   /\ Alone(last'.batch, i, a))
                  => /\ NoBackendRead(last'.blist, a)
                     /\ last'.ok => last'.data[i][j] = mem[a]]_vars

(***************************************************************************)
(* Properties: the write path                                              *)
(***************************************************************************)
\* C11 (write-through): a batched write makes exactly one backend write call; the
\* backend receives the entries of the batch as they are - address, bytes, page type
\* and order - masked or not, cached or not (all of them when the call succeeds), and
\* after a successful batch the backend holds the written bytes.
C11_WriteThrough ==
    last.op = "write" =>
        /\ last.calls = 1
        /\ Len(last.fwd) <= Len(last.batch)
        /\ \A i \in 1..Len(last.fwd) : last.fwd[i] = last.batch[i]
        /\ last.ok =>
             /\ last.fwd = last.batch
             /\ \A a \in Addrs :
                    LET i == LastCovering(last.batch, a)
                    IN  i # 0 => mem[a] = last.batch[i].data[a - last.batch[i].addr + 1]

\* a successful batch of two entries for the same address of a resident page, the first
\* masked and the second not: the backend holds the second entry's byte
C11_Witness ==
    /\ last.op = "write" /\ last.ok
    /\ Len(last.batch) = 2
    /\ last.batch[1].addr = last.batch[2].addr
    /\ is_cached_page_type(last.batch[1].pt)
    /\ ~is_cached_page_type(last.batch[2].pt)
    /\ PageBase(last.batch[1].addr) \in resident
    /\ mem[last.batch[2].addr] = last.batch[2].data[1]

\* slot s (from 1) holds a page and the validator accepts it in this call
HeldValid(cache, v1, s) == cache[s].address # NoAddr /\ v1[s]

\* C12 (writes never allocate): a write step leaves every slot's address as it was and
\* its validity as the validator reported it for the call; it changes a byte of a slot
\* only where the slot holds, valid, the very page an entry of the batch writes to.  A
\* slot that is Invalid, rejected, or holds a different colliding page stays exactly as
\* it was: the written page is not installed, the incumbent neither evicted nor changed.
C12_WritesNeverAllocate ==
    [][last'.op = "write" =>
          \A s \in 1..Len(slots) :
              /\ slots'[s].address = slots[s].address
              /\ valid'[s] = last'.v1[s]
              /\ \A o \in 1..PageSize :
                     slots'[s].buf[o] # slots[s].buf[o]
                         => /\ HeldValid(slots, last'.v1, s)
                            /\ LastCovering(last'.batch, slots[s].address + o - 1) # 0]_vars

\* a masked write, pulled by the backend, to a page colliding with the different page
\* that its slot holds valid; the incumbent is still there
C12_Witness ==
    /\ last.op = "write" /\ last.consumed = 1
    /\ is_cached_page_type(last.batch[1].pt)
    /\ LET s == SlotOf(Len(slots), last.batch[1].addr) + 1
       IN  /\ HeldValid(slots, last.v1, s)
           /\ slots[s].address # PageBase(last.batch[1].addr)
           /\ slots[s].address \in resident

\* C13 (error transparency): a batched read or write through the handle fails exactly
\* when the backend call it makes fails, and then returns the backend's error as it is;
\* a call that needs no backend call (every chunk a hit) succeeds.
C13_ErrorTransparency ==
    last.op \in {"read", "write"} =>
        /\ last.ok <=> last.res = "Ok"
        /\ last.calls \in {0, 1}
        /\ last.calls = 0 => last.res = "Ok" /\ last.bres = "none"
        /\ last.calls = 1 => last.res = last.bres

\* a read that mixes a hit with a miss and whose backend read fails with Bounds
C13_Witness ==
    /\ last.op = "read" /\ last.res = "Bounds" /\ last.calls = 1
    /\ last.batch[1].len = 2
    /\ is_cached_page_type(last.batch[1].pt)
    /\ Len(last.blist) = 1
    /\ resident # {}

(***************************************************************************)
(* Properties: the walk                                                    *)
(***************************************************************************)
\* C14 (bounded round trips): a translation call issues at most as many batched backend
\* reads as its architecture has index fields - 4 on X64, 3 on X86Pae, 2 on X86, none
\* on Null - however many addresses the batch holds and whatever the page tables hold.
C14_BoundedRoundTrips ==
    wOp \in {"iter", "single"} =>
        wReads <= (CASE arch = "X64"    -> 4
                     [] arch = "X86Pae" -> 3
                     [] arch = "X86"    -> 2
                     [] arch = "Null"   -> 0)

\* two addresses of different pages, walked to the last level in four reads
C14_Witness ==
    /\ wOp = "iter" /\ arch = "X64" /\ wFail = 0
    /\ Len(wBatch) = 2 /\ wBatch[1] = V1 /\ wBatch[2] = V3
    /\ wOut[Len(wPre) + 1].ok
    /\ wReads = 4

(***************************************************************************)
(* Properties: validator, slots                                            *)
(***************************************************************************)
\* C15 (validator ordering): every batched read and every batched write calls
\* update_validity exactly once, and before every slot lookup made for that batch.
C15_ValidatorOrdering ==
    last.op \in {"read", "write"} =>
        /\ Len(last.vlog) >= 1
        /\ last.vlog[1] = "update_validity"
        /\ \A k \in 2..Len(last.vlog) : last.vlog[k] = "is_slot_valid"

\* a write of a masked entry that spans two pages: two lookups after the one update
C15_Witness ==
    /\ last.op = "write" /\ last.consumed = 1
    /\ Len(last.vlog) = 3
    /\ last.vlog[3] = "is_slot_valid"

\* every slot is Invalid or holds one page of PageSize bytes at an aligned base address
\* that maps to this very slot
SlotsWellFormed ==
    \A s \in 1..Len(slots) :
        /\ Len(slots[s].buf) = PageSize
        /\ slots[s].address # NoAddr =>
             /\ slots[s].address \in Addrs
             /\ slots[s].address % PageSize = 0
             /\ (slots[s].address \div PageSize) % Len(slots) = s - 1

\* address a is on the only page of the batch that maps to a's slot
SoleInSlot(batch, a) ==
    \A i2 \in 1..Len(batch) : \A j2 \in 1..batch[i2].len :
        LET a2 == batch[i2].addr + j2 - 1
        IN  (a2 \div PageSize) % Len(slots) = (a \div PageSize) % Len(slots)
                => a2 \div PageSize = a \div PageSize

\* a read step writes nothing to the backend, and a masked page it fetched sits in its
\* slot afterwards, with the backend's bytes, whatever the slot held before
ReadReplaces ==
    last'.op = "read" =>
        /\ mem' = mem
        /\ last'.ok =>
             \A i \in 1..Len(last'.batch) : \A j \in 1..last'.batch[i].len :
                 LET a == last'.batch[i].addr + j - 1
                     p == (a \div PageSize) * PageSize
                     s == ((a \div PageSize) % Len(slots)) + 1
                 IN  (/\ is_cached_page_type(last'.batch[i].pt)
                      /\ SoleInSlot(last'.batch, a))
                     => /\ slots'[s].address = p
                        /\ valid'[s]
                        /\ (slots[s].address # p \/ ~last'.v1[s])
                              => slots'[s].buf = [o \in 1..PageSize |-> mem[p + o - 1]]

\* C16 (slot invariant): after any sequence of reads and writes every slot i is Invalid
\* or holds exactly one page of page_size bytes whose base is page-aligned and satisfies
\* (base / page_size) mod n_slots = i; a read of a page that collides with a different
\* incumbent replaces the incumbent in that slot, and nothing is written back.
C16_SlotInvariant == []SlotsWellFormed /\ [][ReadReplaces]_vars

\* a read has just replaced a different page that was resident in the same slot
C16_Witness ==
    /\ last.op = "read" /\ last.ok
    /\ Len(slots) = 1
    /\ is_cached_page_type(last.batch[1].pt)
    /\ last.pre = <<0>> /\ last.v1[1]
    /\ slots[1].address = PageSize
    /\ resident = {PageSize}
    /\ Len(last.blist) = 1

(***************************************************************************)
(* Properties: the builder                                                 *)
(***************************************************************************)
\* C17 (builder configuration): build succeeds exactly when mem, a validator and a page
\* size (by page_size() or by arch()) were supplied, in whatever order; otherwise it
\* returns a configuration error and no cache.  The built cache has the page size of the
\* later of the page_size() / arch() calls, the cache size and mask last set, and
\* 2 MiB and PAGE_TABLE | READ_ONLY where they were never set.
C17_BuilderConfiguration ==
    built.op = "build" =>
        /\ built.ok <=> (calls.mem /\ calls.validator /\ calls.ps # 0)
        /\ ~built.ok => built.err \in ConfigErrors /\ DOMAIN built = {"op", "ok", "err"}
        /\ built.ok =>
             /\ built.page_size = calls.ps
             /\ built.cache_size = (IF calls.cs = 0 THEN 2097152 ELSE calls.cs)
             /\ built.page_type_mask = (IF calls.mask = {} THEN {"PAGE_TABLE", "READ_ONLY"}
                                        ELSE calls.mask)

\* built after page_size(8 KiB) and then arch(): the architecture's 4 KiB, and the
\* defaults for what was never set
C17_Witness ==
    /\ built.op = "build" /\ built.ok
    /\ calls.psFirst = 8192 /\ calls.ps = 4096
    /\ built.page_size = 4096
    /\ calls.cs = 0 /\ built.cache_size = 2097152
    /\ calls.mask = {} /\ built.page_type_mask = DefaultMask

(***************************************************************************)
(* Properties: phys_read_char_string                                       *)
(***************************************************************************)
\* what a phys_read_char_string call is to have done so far, and to have returned if it
\* has: reads at one address of 32, 64, ... bytes, eight at most; the backend's error at
\* the first failing read; the string before the first zero byte once a read holds one
\* (as the bytes themselves, or as their lossy UTF-8 decoding); OutOfBounds when 4096
\* bytes hold none
CharStringContract(lossy) ==
    /\ Len(strLog) <= 8
    /\ \A k \in 1..Len(strLog) :
           /\ strLog[k] = [addr |-> strIn.addr, len |-> 32 * 2^(k - 1)]
           /\ strLog[k].len <= 4096
    /\ strRes # Running =>
         LET zs    == {z \in strIn.m.zeros : z < 4096}
             Z     == CHOOSE z \in zs : \A y \in zs : z <= y
             K     == IF zs = {} THEN 8
                      ELSE CHOOSE k \in 1..8 :
                               /\ 32 * 2^(k - 1) > Z
                               /\ \A k2 \in 1..(k - 1) : 32 * 2^(k2 - 1) <= Z
             bytes == [i \in 1..Z |-> ByteAt(strIn.m, i - 1)]
         IN  IF strIn.fail \in 1..K
             THEN /\ strRes = [op |-> "returned", ok |-> FALSE, err |-> "Io"]
                  /\ Len(strLog) = strIn.fail
             ELSE IF zs # {}
             THEN /\ strRes = [op |-> "returned", ok |-> TRUE,
                               string |-> IF lossy THEN from_utf8_lossy(bytes) ELSE bytes]
                  /\ Len(strLog) = K
             ELSE /\ strRes = OutOfBounds
                  /\ Len(strLog) = 8

\* C18 as stated: the call returns the very bytes before the first zero byte.
C18_Original == CharStringContract(FALSE)

\* C18 (phys_read_char_string terminates): the loop is still running only with fewer
\* than eight reads made and a buffer of 32 * 2^reads bytes, so the call returns after
\* eight iterations at most; it reads at the same address with buffers of 32, 64, ... up
\* to 4096 bytes; it returns the backend's error at the first read that fails, the lossy
\* UTF-8 decoding of the bytes before the first zero byte as soon as a read holds a zero
\* byte (the bytes themselves where they are valid UTF-8), and OutOfBounds when the
\* first 4096 bytes hold no zero byte.
C18_CharStringTerminates ==
    /\ CharStringContract(TRUE)
    /\ strRes = Running => Len(strLog) < 8 /\ strBuf = 32 * 2^Len(strLog)
    /\ strRes # Running => strRes.op = "returned" /\ Len(strLog) >= 1

\* the eighth read, of 4096 bytes, found the zero byte at offset 4095; the byte FF
\* before it came back as U+FFFD
C18_Witness ==
    /\ strRes # Running /\ strRes.ok
    /\ Len(strLog) = 8 /\ strLog[8].len = 4096
    /\ strIn.m.special = <<255>>
    /\ Len(strRes.string) = 4097

(***************************************************************************)
(* Properties: leaves and invalid page tables                              *)
(***************************************************************************)
\* the PTE the walk of v reads at step t when every PTE before it is followed
RECURSIVE PathPTE(_, _, _, _, _)
PathPTE(spec, image, root, v, t) ==
    LET frame == IF t = 1 THEN root
                 ELSE pte_addr_field(spec, PathPTE(spec, image, root, v, t - 1))
    IN  ReadPTE(image, pte_address(spec, t, [v |-> v, frame |-> frame, slot |-> 0]),
                spec.pte_size)

\* the leaf rule: a step that may end a walk, and is the last or has the large-page bit
LeafAt(spec, pte, s) ==
    s \in spec.valid_final_page_steps /\ (s = Depth(spec) \/ spec.large_page_bit \in pte)

\* the PTE refers to an address outside the physical address space
OutOfSpace(spec, pte) == \E b \in pte_addr_field(spec, pte) : b >= spec.address_space_bits

\* the walk of v gets to step s: every PTE before it is present, in range and no leaf
Followed(spec, image, root, v, s) ==
    \A t \in 1..(s - 1) :
        LET pte == PathPTE(spec, image, root, v, t)
        IN  spec.present_bit \in pte /\ ~OutOfSpace(spec, pte) /\ ~LeafAt(spec, pte, t)

\* C19 (leaf rule): a translation whose backend reads succeed emits a physical address
\* only for a walk that got to a step s of valid_final_page_steps whose PTE is the last
\* level's or has large_page_bit set, with the page size of that step - on x86_64 one of
\* steps 2, 3, 4 with 1 GiB, 2 MiB, 4 KiB; a PTE with large_page_bit set at a step outside
\* valid_final_page_steps (the x86_64 PML4 level) is followed to the next level.
C19_LeafRule ==
    wOp # "none" /\ arch # "Null" /\ wFail = 0 =>
        \A i \in 1..Len(wBatch) :
            LET spec   == ArchSpec(arch)
                pte(t) == PathPTE(spec, Image(layout), dtb, wBatch[i], t)
                got(t) == Followed(spec, Image(layout), dtb, wBatch[i], t)
            IN  /\ Results[i].ok =>
                      \E s \in 1..Depth(spec) :
                          /\ got(s)
                          /\ LeafAt(spec, pte(s), s)
                          /\ Results[i].page_size = {page_size_bits(spec, s)}
                          /\ arch = "X64" =>
                                 /\ s \in {2, 3, 4}
                                 /\ Results[i].page_size = {12 + 9 * (4 - s)}
                /\ \A t \in 1..(Depth(spec) - 1) :
                      /\ got(t)
                      /\ spec.present_bit \in pte(t) /\ ~OutOfSpace(spec, pte(t))
                      /\ spec.large_page_bit \in pte(t)
                      /\ (t \notin spec.valid_final_page_steps \/ (arch = "X64" /\ t = 1))
                      => /\ wReads > t
                         /\ Results[i].ok => Results[i].page_size # {page_size_bits(spec, t)}

\* PML4[0] has the large-page bit set and the walk still goes down to a 4 KiB page
C19_Witness ==
    /\ wOp = "single" /\ arch = "X64" /\ layout = "Huge" /\ dtb = RootX64 /\ wFail = 0
    /\ wBatch = <<V1>>
    /\ 7 \in PathPTE(x64_get_mmu_spec, ImageHuge, RootX64, V1, 1)
    /\ wRet.ok /\ wRet.page_size = {12}
    /\ wReads = 4

\* bits of a PTE at or above the width of the physical address space: on x86_64 bits
\* 52 to 62, bit 63 being the NX flag
HighBits(self, pte) ==
    IF self = "X64" THEN {b \in pte : b >= 52 /\ b <= 62}
    ELSE {b \in pte_addr_field(ArchSpec(self), pte) : b >= ArchSpec(self).address_space_bits}

\* C20 (invalid page table): in a translation whose backend reads succeed, a present
\* PTE met at any walk step that refers to an address with a bit at or above
\* address_space_bits gives its slot InvalidPageTable, and a single walk reads nothing
\* after it; no other PTE does: one whose only bit outside the address field is NX
\* (bit 63) is not rejected.
C20_InvalidPageTable ==
    wOp # "none" /\ arch # "Null" /\ wFail = 0 =>
        \A i \in 1..Len(wBatch) :
            LET spec   == ArchSpec(arch)
                pte(t) == PathPTE(spec, Image(layout), dtb, wBatch[i], t)
                bad(t) == /\ \A u \in 1..(t - 1) :
                                /\ spec.present_bit \in pte(u)
                                /\ HighBits(arch, pte(u)) = {}
                                /\ ~LeafAt(spec, pte(u), u)
                          /\ spec.present_bit \in pte(t)
                          /\ HighBits(arch, pte(t)) # {}
            IN  /\ \A t \in 1..Depth(spec) :
                      bad(t) => /\ Results[i] = InvalidPageTable
                                /\ wOp = "single" => wReads = t
                /\ Results[i] = InvalidPageTable => \E t \in 1..Depth(spec) : bad(t)
                /\ \A t \in 1..Depth(spec) :
                      /\ Followed(spec, Image(layout), dtb, wBatch[i], t)
                      /\ LeafAt(spec, pte(t), t)
                      /\ spec.present_bit \in pte(t)
                      /\ pte(t) \ pte_addr_field(spec, pte(t)) \subseteq (0..11) \cup {63}
                      /\ \A b \in pte(t) : b < 52 \/ b = 63
                      => Results[i].ok

\* PD[2] refers to a page table beyond bit 51: the walk stops there, at its third read
C20_Witness ==
    /\ wOp = "single" /\ arch = "X64" /\ layout = "BadDir" /\ dtb = RootX64 /\ wFail = 0
    /\ wBatch = <<V1>>
    /\ 52 \in PathPTE(x64_get_mmu_spec, ImageBadDir, RootX64, V1, 3)
    /\ wRet = InvalidPageTable
    /\ wReads = 3

(***************************************************************************)
(* Properties: the backend read of a batch, rejected writes, page bounds   *)
(***************************************************************************)
\* chunk c of a read batch finds its page in its slot, accepted by the validator
Held(cache, v1, c) ==
    LET s == ((c.addr \div PageSize) % Len(cache)) + 1
    IN  cache[s].address = (c.addr \div PageSize) * PageSize /\ v1[s]

\* what the backend is asked for on behalf of chunk c: nothing for a hit, the whole page
\* for a miss, the chunk itself when its page type bypasses the mask
LoadsOf(cache, v1, c) ==
    IF ~is_cached_page_type(c.pt) THEN {[addr |-> c.addr, len |-> c.len]}
    ELSE IF Held(cache, v1, c) THEN {}
    ELSE {[addr |-> (c.addr \div PageSize) * PageSize, len |-> PageSize]}

\* a read step makes one backend read call at most, holding the page loads of the
\* missed chunks and the bypassing chunks and nothing else; it changes a slot only to
\* install the page of a missed chunk of a cached page type; bypassing bytes come from
\* the backend
C21_ReadStep ==
    last'.op = "read" =>
        LET cs == batch_chunks(last'.batch, 1)
        IN  /\ last'.calls = (IF \A k \in 1..Len(cs) : LoadsOf(slots, last'.v1, cs[k]) = {}
                              THEN 0 ELSE 1)
            /\ {last'.blist[k] : k \in 1..Len(last'.blist)}
                   = UNION {LoadsOf(slots, last'.v1, cs[k]) : k \in 1..Len(cs)}
            /\ \A s \in 1..Len(slots) :
                   slots'[s] # slots[s] =>
                       /\ last'.ok
                       /\ \E k \in 1..Len(cs) :
                              /\ is_cached_page_type(cs[k].pt)
                              /\ ~Held(slots, last'.v1, cs[k])
                              /\ ((cs[k].addr \div PageSize) % Len(slots)) + 1 = s
                              /\ slots'[s].address = (cs[k].addr \div PageSize) * PageSize
            /\ last'.ok =>
                   \A i \in 1..Len(last'.batch) : \A j \in 1..last'.batch[i].len :
                       ~is_cached_page_type(last'.batch[i].pt)
                           => last'.data[i][j] = mem[last'.batch[i].addr + j - 1]

\* every slot that holds a page the validator accepts was filled by a read of a cached
\* page type, and has held that page since
InstalledByMaskedRead ==
    \A s \in 1..Len(slots) :
        slots[s].address # NoAddr /\ valid[s] => slots[s].address \in resident

\* C21 (one backend call per read batch, mask bypass): a batched read issues at most one
\* backend read call, which carries the page-sized loads of all missed chunks together
\* with the chunks whose page type does not intersect the mask; bypassing chunks are
\* never installed in a slot and never served from one, so after any sequence of reads
\* and writes every Valid slot was installed by a read whose page type intersects the
\* mask.
C21_SingleBackendCall == []InstalledByMaskedRead /\ [][C21_ReadStep]_vars

\* one call with a missed chunk of a cached page type on page 0 and a bypassing chunk on
\* page 1: both in the one backend read, page 0 installed, page 1 not
C21_Witness ==
    /\ last.op = "read" /\ last.ok /\ last.calls = 1
    /\ Len(slots) = 2
    /\ Len(last.batch) = 2
    /\ is_cached_page_type(last.batch[1].pt) /\ last.batch[1].addr = 0
    /\ ~is_cached_page_type(last.batch[2].pt) /\ last.batch[2].addr = PageSize
    /\ last.blist = <<[addr |-> 0, len |-> PageSize],
                      [addr |-> PageSize, len |-> last.batch[2].len]>>
    /\ slots[1].address = 0
    /\ slots[2].address = NoAddr

(***************************************************************************)
(* Properties: shared page-table entries                                   *)
(***************************************************************************)
\* the address of the PTE the walk of v reads at step t
PathAddr(spec, image, root, v, t) ==
    LET frame == IF t = 1 THEN root
                 ELSE pte_addr_field(spec, PathPTE(spec, image, root, v, t - 1))
    IN  pte_address(spec, t, [v |-> v, frame |-> frame, slot |-> 0])

\* the page base of a translated address: the address without its page offset
PageBaseOf(r) == {b \in r.address : \A q \in r.page_size : b >= q}

\* C22 (PTE read de-duplication): every batched read of a walk step asks for each
\* distinct PTE address once - the addresses of the entries still in the working set,
\* no more and none twice; entries that share their PTE addresses get the same outcome;
\* and two virtual addresses that resolve through the same leaf PTE are translated to
\* the same page base with the same page size and type, each with its own page offset.
C22_PteDeduplication ==
    wOp # "none" /\ arch # "Null" =>
        LET spec      == ArchSpec(arch)
            image     == Image(layout)
            adr(i, t) == PathAddr(spec, image, dtb, wBatch[i], t)
            pte(i, t) == PathPTE(spec, image, dtb, wBatch[i], t)
            got(i, t) == Followed(spec, image, dtb, wBatch[i], t)
            leaf(i, t) == /\ got(i, t)
                          /\ spec.present_bit \in pte(i, t)
                          /\ ~OutOfSpace(spec, pte(i, t))
                          /\ LeafAt(spec, pte(i, t), t)
        IN  /\ Len(wLog) = wReads
            /\ \A r \in 1..Len(wLog) :
                   /\ \A m, n \in 1..Len(wLog[r]) : m # n => wLog[r][m] # wLog[r][n]
                   /\ {wLog[r][n] : n \in 1..Len(wLog[r])}
                          = {adr(i, r) : i \in {k \in 1..Len(wBatch) : got(k, r)}}
            /\ \A i, j \in 1..Len(wBatch) :
                   /\ (\A t \in 1..Depth(spec) : adr(i, t) = adr(j, t))
                          => /\ Results[i].ok = Results[j].ok
                             /\ ~Results[i].ok => Results[i] = Results[j]
                   /\ wFail = 0 =>
                          \A t \in 1..Depth(spec) :
                              leaf(i, t) /\ leaf(j, t) /\ adr(i, t) = adr(j, t)
                                  => /\ Results[i].ok /\ Results[j].ok
                                     /\ PageBaseOf(Results[i]) = PageBaseOf(Results[j])
                                     /\ Results[i].page_size = Results[j].page_size
                                     /\ Results[i].page_type = Results[j].page_type
                                     /\ Results[i].address =
                                            PageBaseOf(Results[i])
                                            \cup {b \in wBatch[i] :
                                                     \A q \in Results[i].page_size : b < q}

\* two addresses of one 4 KiB page in a batch: four reads of one PTE each, one page base
C22_Witness ==
    /\ wOp = "iter" /\ arch = "X64" /\ layout = "S2" /\ dtb = RootX64 /\ wFail = 0
    /\ wBatch = <<V1, V2>>
    /\ Len(wLog) = 4
    /\ \A r \in 1..4 : Len(wLog[r]) = 1
    /\ Results[1].ok /\ Results[2].ok
    /\ Results[1].address # Results[2].address
    /\ PageBaseOf(Results[1]) = PageBaseOf(Results[2])

(***************************************************************************)
(* Properties: rejected writes                                             *)
(***************************************************************************)
\* every slot holding a page the validator accepts holds the backend's bytes of that page
SlotsEqualBackend ==
    \A s \in 1..Len(slots) :
        slots[s].address # NoAddr /\ valid[s] =>
            \A o \in 1..PageSize : slots[s].buf[o] = mem[slots[s].address + o - 1]

\* C23 (a rejected write leaves the cache unchanged): a batched write that the backend
\* fails changes no byte of any cached page.
C23_RejectedWriteLeavesCache ==
    [][last'.op = "write" /\ ~last'.ok =>
          \A s \in 1..Len(slots) : slots'[s].buf = slots[s].buf]_vars

(***************************************************************************)
(* Properties: the in-place update                                         *)
(***************************************************************************)
\* the chunks of entry e of a write batch, with the cached page each one meets
ChunksOf(cache, v1, e) ==
    LET cs == page_chunks(e.addr, Len(e.data), 0)
    IN  [k \in 1..Len(cs) |->
           [addr |-> cs[k].addr, len |-> cs[k].len, off |-> cs[k].off,
            page |-> cached_page_mut(cache, v1, cs[k].addr)]]

\* a write step: the chunks of an entry follow each other and make up its data; a chunk
\* that meets a Valid page meets the page of its own aligned base, in that page's slot,
\* and its range [start, start + len) lies inside the page buffer; a byte of a slot
\* changes only inside the range of such a chunk
C24_WriteStep ==
    last'.op = "write" =>
        LET masked == {i \in 1..last'.consumed : is_cached_page_type(last'.batch[i].pt)}
            cks(i) == ChunksOf(slots, last'.v1, last'.batch[i])
        IN  /\ \A i \in masked :
                   /\ SumFrom([k \in 1..Len(cks(i)) |-> cks(i)[k].len], 1)
                          = Len(last'.batch[i].data)
                   /\ \A k \in 1..Len(cks(i)) :
                          LET c     == cks(i)[k]
                              start == c.addr - c.page.address
                              s     == ((c.addr \div PageSize) % Len(slots)) + 1
                          IN  /\ c.len >= 1
                              /\ c.addr = last'.batch[i].addr + c.off
                              /\ c.page.validity = "Valid" =>
                                     /\ c.page.address = (c.addr \div PageSize) * PageSize
                                     /\ c.page.address = slots[s].address
                                     /\ start >= 0
                                     /\ start + c.len <= PageSize
                                     /\ start + c.len <= Len(c.page.buf)
            /\ \A s \in 1..Len(slots) : \A o \in 1..PageSize :
                   slots'[s].buf[o] # slots[s].buf[o] =>
                       \E i \in masked : \E k \in 1..Len(cks(i)) :
                           LET c == cks(i)[k]
                           IN  /\ c.page.validity = "Valid"
                               /\ c.page.address = slots[s].address
                               /\ o - 1 >= c.addr - c.page.address
                               /\ o - 1 < c.addr - c.page.address + c.len

\* C24 (the in-place update stays inside its page): for every write entry, whatever its
\* start address and length, and every chunk it is split into, a chunk whose slot is
\* Valid meets the page at the aligned base of the chunk address, so start = chunk
\* address - page address satisfies 0 <= start and start + chunk length <= page_size;
\* the update neither underflows nor runs past the page buffer, and changes only the
\* bytes [start, start + chunk length) of that one page.
C24_UpdateInsidePage == [][C24_WriteStep]_vars

\* a masked write of two bytes across the boundary of two resident pages: the last byte
\* of page 0 and the first byte of page 1 changed, their neighbours did not
C24_Witness ==
    /\ last.op = "write" /\ last.consumed = 1
    /\ Len(slots) = 2
    /\ is_cached_page_type(last.batch[1].pt)
    /\ last.batch[1].addr = PageSize - 1 /\ Len(last.batch[1].data) = 2
    /\ last.pre = <<0, PageSize>> /\ last.v1 = <<TRUE, TRUE>>
    /\ slots[1].buf[PageSize] = last.batch[1].data[1]
    /\ slots[2].buf[1] = last.batch[1].data[2]
    /\ slots[2].buf[2] = mem[PageSize + 1] /\ slots[2].buf[2] < 100

====
